---- MODULE Spec2Model ----
(***************************************************************************)
(* Fantasy-hockey recommendation pipeline: scoring engine, threshold       *)
(* selector and recommendation ranker of src/analyzer.py, the per-game     *)
(* rate derivations of src/dashboard.py, src/openai_team_analyzer.py and   *)
(* src/espn_client.py, the swap evaluator of src/openai_team_analyzer.py,  *)
(* the two historical-bonus lookups, and the snapshot files written by     *)
(* src/pipeline.py under src/scheduler.py and src/cron_service.py.         *)
(*                                                                         *)
(* Numbers.  Python floats are modelled by exact fixed-point or rational   *)
(* values:                                                                 *)
(*   - fantasy points are kept in tenths (every scoring weight of          *)
(*     config.SCORING_CATEGORIES is a multiple of 0.1);                    *)
(*   - the 0-10 ratings are kept in tenths;                                *)
(*   - per-game rates and value scores are rationals [num, den], den > 0.  *)
(***************************************************************************)
EXTENDS Integers, Sequences, FiniteSets, TLC

VARIABLES
    free_agents,       \* the list passed to analyze_player_pickups; its dicts are mutated in place
    all_star_file,     \* data/all_star_appearances.json
    analysis_settings, \* FantasyHockeyAnalyzer.analysis_settings
    openai_client,     \* FantasyHockeyAnalyzer.openai_client is set
    analyzed_agents,   \* local of analyze_player_pickups: references (indices) into free_agents
    thresholds,        \* (min_games, min_total_points) last returned by _get_smart_thresholds
    filtered_players,  \* local of _rank_and_filter_players: references into free_agents
    recommendations,   \* the list analyze_player_pickups returned: references into free_agents
    outcome,           \* how the last call ended
    narrative_failed,  \* recommended players whose completion request raised
    espn_total_stats,  \* player.stats["Total 2026"]["total"] as the data source delivers it
    player_stats,      \* the stat line ESPNFantasyClient._get_player_stats returned
    per_game,          \* the per-game rate each consumer derived from player_stats
    team_roster,       \* the roster passed to analyze_team_roster
    top_free_agents,   \* the free agents passed to analyze_team_roster
    swap_targets,      \* per roster player, what _find_swap_targets returned
    swap_scores,       \* per roster player, the score of its best target
    roster_recommendations, \* the dict analyze_team_roster returned
    lookup_name,       \* the player name a historical-bonus lookup is made for
    analyzer_bonus,    \* what FantasyHockeyAnalyzer._calculate_historical_bonus returned
    dashboard_bonus,   \* what dashboard.get_historical_bonus returned
    snapshot_files,    \* the files of data/, output/ and reports/, by category and timestamp
    clock,             \* wall-clock time, in ticks of at least a second
    run_timestamp,     \* FantasyHockeyPipeline.run_timestamp of the live pipeline object
    runs,              \* the number of calls of run_full_analysis so far
    last_result,       \* how the last call of run_full_analysis ended
    latest_before,     \* per category, the latest file when the last call began
    fetched,           \* what get_my_team and get_free_agents returned to the last call
    write_failed,      \* the files whose write raised during the last call
    collection,        \* what the last cron_service.run_data_collection returned
    VALUE_SCORING,     \* analysis_config.VALUE_SCORING["weights"], in hundredths
    RECOMMENDATION_THRESHOLDS, \* analysis_config.RECOMMENDATION_THRESHOLDS
    config_updated,    \* the configuration keys an update call has set
    all_star_mtime,    \* modification time of data/all_star_appearances.json
    reader,            \* the call of utils.get_latest_data_file in flight, or the last one
    due,               \* the scheduled jobs whose next run time has come
    pending,           \* the jobs the current schedule.run_pending() has still to run
    running,           \* the job functions of ScheduledAnalyzer that are executing
    loop_pc,           \* where the thread of ScheduledAnalyzer.run_scheduler is
    due_events,        \* how often a job has come due so far
    job_log,           \* per job, how its last execution ended, as logged
    pc

pickupVars == <<free_agents, all_star_file, analysis_settings, openai_client,
                analyzed_agents, thresholds, filtered_players, recommendations,
                outcome, narrative_failed>>

statVars == <<espn_total_stats, player_stats, per_game>>

swapVars == <<team_roster, top_free_agents, swap_targets, swap_scores,
              roster_recommendations>>

bonusVars == <<lookup_name, analyzer_bonus, dashboard_bonus>>

snapshotVars == <<snapshot_files, clock, run_timestamp, runs, last_result,
                  latest_before, fetched, write_failed, collection>>

schedulerVars == <<due, pending, running, loop_pc, due_events, job_log>>

opsVars == <<VALUE_SCORING, RECOMMENDATION_THRESHOLDS, config_updated,
             all_star_mtime, reader, schedulerVars>>

sideVars == <<swapVars, bonusVars, snapshotVars, opsVars>>

vars == <<pickupVars, statVars, sideVars, pc>>

----------------------------------------------------------------------------
(* Bounds of the model *)

MaxPool == 3
MaxSeasonGames == 82
MaxProbeGames == 6
MaxRawGames == 2

----------------------------------------------------------------------------
(* Rationals *)

Rat(n, d) == [num |-> n, den |-> d]

ZeroRat == Rat(0, 1)

\* Sign of a/b - c/d for b, d > 0, by comparing integer parts and then the
\* reciprocals of the fractional parts, so that no product is ever formed.
RECURSIVE RatCmpParts(_, _, _, _)
RatCmpParts(a, b, c, d) ==
    LET qa == a \div b
        qc == c \div d
        ra == a % b
        rc == c % d
    IN  IF qa < qc THEN -1
        ELSE IF qa > qc THEN 1
        ELSE IF ra = 0 /\ rc = 0 THEN 0
        ELSE IF ra = 0 THEN -1
        ELSE IF rc = 0 THEN 1
        ELSE RatCmpParts(d, rc, b, ra)

RatCmp(x, y) == RatCmpParts(x.num, x.den, y.num, y.den)
RatLeq(x, y) == RatCmp(x, y) <= 0
RatLess(x, y) == RatCmp(x, y) < 0
RatEq(x, y) == RatCmp(x, y) = 0

Max(a, b) == IF a >= b THEN a ELSE b
Min(a, b) == IF a <= b THEN a ELSE b

----------------------------------------------------------------------------
(* Configuration: src/config.py *)

\* SCORING_CATEGORIES, in tenths of a fantasy point per unit.
SCORING_CATEGORIES ==
    [goals |-> 20, assists |-> 10, powerplay_points |-> 5,
     shorthanded_points |-> 5, shots_on_goal |-> 2, hits |-> 4, blocks |-> 8,
     wins |-> 40, goals_against |-> -10, saves |-> 2, shutouts |-> 30,
     overtime_losses |-> 10]

Categories == DOMAIN SCORING_CATEGORIES

\* ANALYSIS_SETTINGS["max_recommendations"] as shipped.
DefaultMaxRecommendations == 15

----------------------------------------------------------------------------
(* Player records *)

\* A key the dict does not have.
AbsentKey == "<absent>"

\* stats.shape: "dict" a well-formed stat line; "absent" the player has no
\* "stats" key; "none" the value of "stats" is None; "gp_none" a stat line
\* whose games_played is None.
ZeroStats ==
    [shape |-> "dict", games_played |-> 0, points |-> 0,
     goals |-> 0, assists |-> 0, powerplay_points |-> 0,
     shorthanded_points |-> 0, shots_on_goal |-> 0, hits |-> 0, blocks |-> 0,
     wins |-> 0, goals_against |-> 0, saves |-> 0, shutouts |-> 0,
     overtime_losses |-> 0]

AbsentAnalysis ==
    [consistency_rating |-> 0, upside_potential |-> 0, injury_risk |-> 0,
     position_scarcity |-> 0, recent_trend |-> AbsentKey, value_score |-> ZeroRat]

\* The analysis dict the except branch of analyze_player_pickups attaches.
ZeroAnalysis ==
    [consistency_rating |-> 0, upside_potential |-> 0, injury_risk |-> 0,
     position_scarcity |-> 0, recent_trend |-> "unknown", value_score |-> ZeroRat]

\* A free agent as the data source delivers it: no top-level fantasy_points,
\* fantasy_points_per_game, analysis or ai_insight key yet.
RawAgent(name, position, injury, stats) ==
    [name |-> name, position |-> position, injury_status |-> injury,
     stats |-> stats,
     fantasy_points |-> 0,
     fantasy_points_per_game |-> ZeroRat,
     analysis |-> AbsentAnalysis, ai_insight |-> AbsentKey]

----------------------------------------------------------------------------
(* Scoring engine: src/analyzer.py *)

\* stats.get(category, 0) on a well-formed stat line.
StatValue(stats, category) == stats[category]

RECURSIVE SumOverCategories(_, _)
SumOverCategories(stats, cats) ==
    IF cats = {} THEN 0
    ELSE LET c == CHOOSE x \in cats : TRUE
         IN  StatValue(stats, c) * SCORING_CATEGORIES[c]
             + SumOverCategories(stats, cats \ {c})

\* Total fantasy points, in tenths.
_calculate_fantasy_points(stats) == SumOverCategories(stats, Categories)

\* Consistency rating, in tenths: 5.0 below five games, else min(10, gp / 2).
_calculate_consistency(stats) ==
    IF stats.games_played < 5 THEN 50
    ELSE Min(100, 5 * stats.games_played)

\* Upside potential, in tenths: min(10, indicators * 2.5).
_calculate_upside(stats) ==
    LET shooting == IF stats.shots_on_goal > 0
                       /\ 100 * stats.goals > 15 * stats.shots_on_goal
                    THEN 2 ELSE 0
        powerplay == IF stats.powerplay_points > 0 THEN 1 ELSE 0
        production == IF stats.points > 10 THEN 1 ELSE 0
    IN  Min(100, (shooting + powerplay + production) * 25)

\* word in injury_status.lower(), for the status strings of the model.
InjuryStatuses ==
    {"", "ACTIVE", "PROBABLE", "QUESTIONABLE", "DOUBTFUL", "OUT", "DAY_TO_DAY"}

NoneValue == "<None>"

LowerContains(status, word) ==
    <<status, word>> \in {<<"OUT", "out">>, <<"DOUBTFUL", "doubtful">>,
                          <<"QUESTIONABLE", "questionable">>,
                          <<"PROBABLE", "probable">>}

\* Injury risk, in tenths.
_assess_injury_risk(player) ==
    LET injury_status == player.injury_status
    IN  IF LowerContains(injury_status, "out") THEN 100
        ELSE IF LowerContains(injury_status, "doubtful") THEN 80
        ELSE IF LowerContains(injury_status, "questionable") THEN 60
        ELSE IF LowerContains(injury_status, "probable") THEN 30
        ELSE 10

\* Position scarcity, in tenths: scarcity_map.get(position, 5.0).
_assess_position_scarcity(position) ==
    CASE position = "G" -> 90
      [] position = "C" -> 70
      [] position = "LW" -> 60
      [] position = "RW" -> 60
      [] position = "D" -> 50
      [] OTHER -> 50

_analyze_trend(player) == "stable"

_analyze_player_metrics(player) ==
    [consistency_rating |-> _calculate_consistency(player.stats),
     upside_potential |-> _calculate_upside(player.stats),
     injury_risk |-> _assess_injury_risk(player),
     position_scarcity |-> _assess_position_scarcity(player.position),
     recent_trend |-> _analyze_trend(player),
     value_score |-> ZeroRat]

\* The statements of the try block of analyze_player_pickups that raise:
\* agent["stats"] (KeyError), stats.get on None (AttributeError),
\* max(None, 1) (TypeError), player["position"] (KeyError) and
\* None.lower() (AttributeError).
ScoringRaises(agent) ==
    \/ agent.stats.shape \in {"absent", "none", "gp_none"}
    \/ agent.position = AbsentKey
    \/ agent.injury_status = NoneValue

\* fantasy_points / max(games_played, 1)
PerGame(fantasy_points, games_played) ==
    Rat(fantasy_points, 10 * Max(games_played, 1))

\* One iteration of the loop of analyze_player_pickups on one agent.
ScoreAgent(agent) ==
    IF ScoringRaises(agent)
    THEN [agent EXCEPT !.fantasy_points = 0,
                       !.fantasy_points_per_game = ZeroRat,
                       !.analysis = ZeroAnalysis]
    ELSE LET fantasy_points == _calculate_fantasy_points(agent.stats)
             scored == [agent EXCEPT
                          !.fantasy_points = fantasy_points,
                          !.fantasy_points_per_game =
                              PerGame(fantasy_points, agent.stats.games_played)]
         IN  [scored EXCEPT !.analysis = _analyze_player_metrics(scored)]

----------------------------------------------------------------------------
(* Historical bonus lookup: src/analyzer.py *)

\* The reference table file: status "ok" (readable JSON), "missing" or
\* "malformed"; appearances maps the names it lists to their counts.
AllStarFile(status, appearances) ==
    [status |-> status, appearances |-> appearances]

EmptyTable == [n \in {} |-> 0]

_load_all_star_data(file) ==
    IF file.status = "ok" THEN file.appearances ELSE EmptyTable

\* The tiers before they were raised: 0.3, 0.25, 0.2, 0.15.
HistoricalBonusOldTiers(player, file) ==
    LET all_star_players == _load_all_star_data(file)
        appearances == IF player.name \in DOMAIN all_star_players
                       THEN all_star_players[player.name] ELSE 0
    IN  IF appearances >= 5 THEN 30
        ELSE IF appearances >= 3 THEN 25
        ELSE IF appearances >= 2 THEN 20
        ELSE IF appearances >= 1 THEN 15
        ELSE 0

\* Historical bonus, in hundredths.
_calculate_historical_bonus(player, file) ==
    LET all_star_players == _load_all_star_data(file)
        appearances == IF player.name \in DOMAIN all_star_players
                       THEN all_star_players[player.name] ELSE 0
    IN  IF appearances >= 5 THEN 40
        ELSE IF appearances >= 3 THEN 35
        ELSE IF appearances >= 2 THEN 30
        ELSE IF appearances >= 1 THEN 20
        ELSE 0

----------------------------------------------------------------------------
(* Value score: src/analyzer.py *)

\* p.get("stats", {}).get("games_played", 0)
GamesPlayedOf(p) ==
    IF p.stats.shape = "dict" THEN p.stats.games_played ELSE 0

\* Positional multiplier, in hundredths.
PositionMultiplier(position) ==
    IF position = "Goalie" THEN 60
    ELSE IF position = "Defense" THEN 115
    ELSE 100

\* Small-sample penalty, in tenths; 10 (no penalty) from five games on.
SamplePenalty(games_played) ==
    IF games_played < 5
    THEN Max(5, 10 - (5 - games_played))
    ELSE 10

\* The value score without the final max(0.0, score).
ValueScoreUnclamped(player, file) ==
    LET analysis == player.analysis
        n == player.fantasy_points_per_game.num
        d == player.fantasy_points_per_game.den
        weighted == 80 * n
                    + d * (5 * analysis.consistency_rating
                           + 5 * analysis.upside_potential
                           + 2 * analysis.position_scarcity
                           + 2 * analysis.injury_risk)
        positioned == weighted * PositionMultiplier(player.position)
        bonused == positioned + _calculate_historical_bonus(player, file) * 200 * d
        penalised == bonused * SamplePenalty(GamesPlayedOf(player))
    IN  Rat(penalised, 200000 * d)

\* The value score with abs(score) in place of max(0.0, score).
ValueScoreAbsolute(player, file) ==
    LET unclamped == ValueScoreUnclamped(player, file)
    IN  Rat(IF unclamped.num < 0 THEN -unclamped.num ELSE unclamped.num,
            unclamped.den)

\* The value score with the historical bonus added before the positional
\* multiplier is applied.
ValueScoreBonusScaled(player, file) ==
    LET analysis == player.analysis
        n == player.fantasy_points_per_game.num
        d == player.fantasy_points_per_game.den
        weighted == 80 * n
                    + d * (5 * analysis.consistency_rating
                           + 5 * analysis.upside_potential
                           + 2 * analysis.position_scarcity
                           + 2 * analysis.injury_risk)
        bonused == weighted + _calculate_historical_bonus(player, file) * 2 * d
        positioned == bonused * PositionMultiplier(player.position)
        penalised == positioned * SamplePenalty(GamesPlayedOf(player))
    IN  Rat(Max(0, penalised), 200000 * d)

\* With fantasy_points_per_game = n/d and the ratings in tenths:
\*   weighted   = 200 d   * (0.4 n/d + 0.25 c + 0.25 u + 0.1 s + 0.1 r)
\*   positioned = 20000 d  * (the weighted sum times the multiplier)
\*   bonused    = 20000 d  * (that plus the historical bonus)
\*   penalised  = 200000 d * (that times the sample penalty)
\* and the value score is max(0, penalised) / (200000 d).
_calculate_value_score(player, file) ==
    LET analysis == player.analysis
        n == player.fantasy_points_per_game.num
        d == player.fantasy_points_per_game.den
        weighted == 80 * n
                    + d * (5 * analysis.consistency_rating
                           + 5 * analysis.upside_potential
                           + 2 * analysis.position_scarcity
                           + 2 * analysis.injury_risk)
        positioned == weighted * PositionMultiplier(player.position)
        bonused == positioned + _calculate_historical_bonus(player, file) * 200 * d
        penalised == bonused * SamplePenalty(GamesPlayedOf(player))
    IN  Rat(Max(0, penalised), 200000 * d)

----------------------------------------------------------------------------
(* Threshold selector: src/analyzer.py *)

Thresholds(min_games, min_total_points) ==
    [min_games |-> min_games, min_total_points |-> min_total_points]

NoThresholds == Thresholds(-1, -1)

RECURSIVE MaxOf(_)
MaxOf(seq) ==
    IF Len(seq) = 1 THEN seq[1] ELSE Max(seq[1], MaxOf(Tail(seq)))

\* int(max_games * percent / 100) for max_games >= 0
IntOfPercent(max_games, percent) == (max_games * percent) \div 100

\* round(max_games * percent / 100), ties to even as Python rounds.
RoundOfPercent(max_games, percent) ==
    LET q == (max_games * percent) \div 100
        r == (max_games * percent) % 100
    IN  IF r > 50 THEN q + 1
        ELSE IF r < 50 THEN q
        ELSE IF q % 2 = 0 THEN q ELSE q + 1

\* The selector with the fallback also taken when no game has been played.
ThresholdsFallbackOnZeroMax(players) ==
    IF players = <<>> THEN Thresholds(3, 10)
    ELSE LET games_played == [i \in 1..Len(players) |-> GamesPlayedOf(players[i])]
             max_games == MaxOf(games_played)
         IN  IF max_games = 0 THEN Thresholds(3, 10)
             ELSE IF max_games <= 10 THEN Thresholds(1, 5)
             ELSE IF max_games <= 30
             THEN Thresholds(Max(3, IntOfPercent(max_games, 15)),
                             Max(10, IntOfPercent(max_games, 80)))
             ELSE Thresholds(Max(5, IntOfPercent(max_games, 20)),
                             Max(20, IntOfPercent(max_games, 100)))

\* The selector with exclusive upper bounds on the early and mid branches.
ThresholdsExclusiveBounds(players) ==
    IF players = <<>> THEN Thresholds(3, 10)
    ELSE LET games_played == [i \in 1..Len(players) |-> GamesPlayedOf(players[i])]
             max_games == MaxOf(games_played)
         IN  IF max_games < 10 THEN Thresholds(1, 5)
             ELSE IF max_games < 30
             THEN Thresholds(Max(3, IntOfPercent(max_games, 15)),
                             Max(10, IntOfPercent(max_games, 80)))
             ELSE Thresholds(Max(5, IntOfPercent(max_games, 20)),
                             Max(20, IntOfPercent(max_games, 100)))

\* The selector with round() in place of int().
ThresholdsRounded(players) ==
    IF players = <<>> THEN Thresholds(3, 10)
    ELSE LET games_played == [i \in 1..Len(players) |-> GamesPlayedOf(players[i])]
             max_games == MaxOf(games_played)
         IN  IF max_games <= 10 THEN Thresholds(1, 5)
             ELSE IF max_games <= 30
             THEN Thresholds(Max(3, RoundOfPercent(max_games, 15)),
                             Max(10, RoundOfPercent(max_games, 80)))
             ELSE Thresholds(Max(5, RoundOfPercent(max_games, 20)),
                             Max(20, RoundOfPercent(max_games, 100)))

\* players: a sequence of player records whose stats are well formed or absent.
_get_smart_thresholds(players) ==
    IF players = <<>> THEN Thresholds(3, 10)
    ELSE LET games_played == [i \in 1..Len(players) |-> GamesPlayedOf(players[i])]
             max_games == MaxOf(games_played)
         IN  IF max_games <= 10 THEN Thresholds(1, 5)
             ELSE IF max_games <= 30
             THEN Thresholds(Max(3, IntOfPercent(max_games, 15)),
                             Max(10, IntOfPercent(max_games, 80)))
             ELSE Thresholds(Max(5, IntOfPercent(max_games, 20)),
                             Max(20, IntOfPercent(max_games, 100)))

\* p.get("stats", {}).get(...) raises AttributeError when "stats" is None;
\* max() or the comparison of max_games raises TypeError when a
\* games_played is None.
ThresholdsRaise(players) ==
    \E i \in 1..Len(players) : players[i].stats.shape \in {"none", "gp_none"}

----------------------------------------------------------------------------
(* Recommendation ranker: src/analyzer.py *)

Deref(agents, refs) == [i \in 1..Len(refs) |-> agents[refs[i]]]

\* The filter as it would be with the per-game rate in place of the total.
MeetsThresholdsPerGame(p, th) ==
    /\ GamesPlayedOf(p) >= th.min_games
    /\ RatLeq(Rat(th.min_total_points, 1), p.fantasy_points_per_game)

\* The filter condition; fantasy_points is in tenths.
MeetsThresholds(p, th) ==
    /\ GamesPlayedOf(p) >= th.min_games
    /\ p.fantasy_points >= 10 * th.min_total_points

RECURSIVE FilterRefs(_, _, _)
FilterRefs(agents, refs, th) ==
    IF refs = <<>> THEN <<>>
    ELSE LET rest == FilterRefs(agents, Tail(refs), th)
         IN  IF MeetsThresholds(agents[Head(refs)], th)
             THEN <<Head(refs)>> \o rest
             ELSE rest

ValueScoreOf(agents, ref) == agents[ref].analysis.value_score

\* The insertion of a sort that is not stable: x goes in front of its equals.
InsertBeforeEquals(agents, placed, x) ==
    LET k == Cardinality({j \in 1..Len(placed) :
                 RatLess(ValueScoreOf(agents, x), ValueScoreOf(agents, placed[j]))})
    IN  SubSeq(placed, 1, k) \o <<x>> \o SubSeq(placed, k + 1, Len(placed))

\* Where sorted(..., reverse=True) places x among the already placed
\* elements: behind every element whose key is not smaller (stable).
InsertByValueScore(agents, placed, x) ==
    LET k == Cardinality({j \in 1..Len(placed) :
                 RatLeq(ValueScoreOf(agents, x), ValueScoreOf(agents, placed[j]))})
    IN  SubSeq(placed, 1, k) \o <<x>> \o SubSeq(placed, k + 1, Len(placed))

\* sorted(filtered_players, key=value_score, reverse=True)
RECURSIVE SortedByValueScore(_, _, _)
SortedByValueScore(agents, placed, refs) ==
    IF refs = <<>> THEN placed
    ELSE SortedByValueScore(agents,
                            InsertByValueScore(agents, placed, Head(refs)),
                            Tail(refs))

\* The slice sorted_players[-max_recs:], the other end of the list.
BottomRecommendations(sorted_players, max_recs) ==
    SubSeq(sorted_players,
           Len(sorted_players) - Min(max_recs, Len(sorted_players)) + 1,
           Len(sorted_players))

\* sorted_players[:max_recs] for max_recs >= 0
TopRecommendations(sorted_players, max_recs) ==
    SubSeq(sorted_players, 1, Min(max_recs, Len(sorted_players)))

\* agents: the player dicts; players: the references passed in.  Returns the
\* dicts as mutated, the thresholds, the filtered list and the returned list.
_rank_and_filter_players(agents, players, settings, file) ==
    LET th == _get_smart_thresholds(Deref(agents, players))
        filtered == FilterRefs(agents, players, th)
        survivors == {filtered[i] : i \in 1..Len(filtered)}
        valued == [i \in 1..Len(agents) |->
                     IF i \in survivors
                     THEN [agents[i] EXCEPT !.analysis.value_score =
                                               _calculate_value_score(agents[i], file)]
                     ELSE agents[i]]
        sorted_players == SortedByValueScore(valued, <<>>, filtered)
    IN  [agents |-> valued,
         thresholds |-> th,
         filtered_players |-> filtered,
         returned |-> TopRecommendations(sorted_players, settings.max_recommendations)]

----------------------------------------------------------------------------
(* Narrative insights: src/analyzer.py *)

Placeholder == "AI analysis unavailable"

\* _create_ai_context subscripts player["position"] and player["stats"]:
\* KeyError when the record has no such key.
ContextRaises(player) ==
    \/ player.position = AbsentKey
    \/ player.stats.shape = "absent"

\* The recommendations the loop of _add_ai_insights reaches: those before
\* the first one whose context raises, which ends the loop.
ReachedByInsights(agents, recs) ==
    {recs[i] : i \in {j \in 1..Len(recs) :
                        \A k \in 1..j : ~ContextRaises(agents[recs[k]])}}

\* _get_ai_analysis: the text of the completion, or the placeholder when the
\* request raises.
_get_ai_analysis(raises) == IF raises THEN Placeholder ELSE "insight"

\* The loop as it would run if a raising completion request ended it.
InsightsAbortOnFailure(agents, recs, failing) ==
    LET reached == {recs[i] : i \in {j \in 1..Len(recs) :
                                       \A k \in 1..j : recs[k] \notin failing}}
    IN  [i \in 1..Len(agents) |->
           IF i \in reached
           THEN [agents[i] EXCEPT !.ai_insight = "insight"]
           ELSE agents[i]]

\* failing: the recommended players for which the completion request raises.
_add_ai_insights(agents, recs, failing) ==
    LET reached == ReachedByInsights(agents, recs)
    IN  [i \in 1..Len(agents) |->
           IF i \in reached
           THEN [agents[i] EXCEPT !.ai_insight = _get_ai_analysis(i \in failing)]
           ELSE agents[i]]

----------------------------------------------------------------------------
(* analyze_player_pickups: src/analyzer.py *)

Refs(n) == [i \in 1..n |-> i]

analyze_player_pickups ==
    /\ pc = "start"
    /\ LET scored == [i \in 1..Len(free_agents) |-> ScoreAgent(free_agents[i])]
           all == Refs(Len(free_agents))
       IN  /\ analyzed_agents' = all
           /\ IF ThresholdsRaise(scored)
              THEN \* the exception leaves _rank_and_filter_players and is
                   \* caught by the outer handler, which returns []
                   /\ free_agents' = scored
                   /\ thresholds' = NoThresholds
                   /\ filtered_players' = <<>>
                   /\ recommendations' = <<>>
                   /\ outcome' = "error"
                   /\ narrative_failed' = {}
              ELSE LET ranked == _rank_and_filter_players(scored, all,
                                     analysis_settings, all_star_file)
                       recommended == {ranked.returned[i] :
                                          i \in 1..Len(ranked.returned)}
                   IN  /\ thresholds' = ranked.thresholds
                       /\ filtered_players' = ranked.filtered_players
                       /\ recommendations' = ranked.returned
                       /\ outcome' = "ok"
                       /\ IF openai_client
                          THEN \E failing \in SUBSET ReachedByInsights(
                                                     ranked.agents, ranked.returned) :
                                 /\ free_agents' = _add_ai_insights(ranked.agents,
                                                      ranked.returned, failing)
                                 /\ narrative_failed' = failing
                          ELSE /\ free_agents' = ranked.agents
                               /\ narrative_failed' = {}
    /\ pc' = "done"
    /\ UNCHANGED <<all_star_file, analysis_settings, openai_client>>
    /\ UNCHANGED <<statVars, sideVars>>

----------------------------------------------------------------------------
(* Inputs of the pipeline specification *)

Skater(gp, g, a, ppp, sog, hits, blocks) ==
    [ZeroStats EXCEPT !.games_played = gp, !.goals = g, !.assists = a,
                      !.points = g + a, !.powerplay_points = ppp,
                      !.shots_on_goal = sog, !.hits = hits, !.blocks = blocks]

Netminder(gp, wins, ga, saves, so) ==
    [ZeroStats EXCEPT !.games_played = gp, !.wins = wins,
                      !.goals_against = ga, !.saves = saves, !.shutouts = so]

MalformedStats(shape) == [ZeroStats EXCEPT !.shape = shape]

\* Free agents the data source may deliver, early, mid and late in a season,
\* and the malformed records: no "stats" key, "stats" None, games_played
\* None, no "position" key.
FreeAgentPool ==
    { RawAgent("Rookie", "Center", "ACTIVE", Skater(1, 3, 0, 0, 6, 0, 0)),
      RawAgent("Scratch", "Left Wing", "", Skater(0, 0, 0, 0, 0, 0, 0)),
      RawAgent("Callup", "Right Wing", "QUESTIONABLE", Skater(3, 2, 1, 1, 5, 2, 0)),
      RawAgent("Crosby", "Center", "ACTIVE", Skater(10, 5, 8, 3, 30, 5, 2)),
      RawAgent("Grinder", "Defense", "OUT", Skater(11, 0, 1, 0, 8, 20, 15)),
      RawAgent("Makar", "Defense", "ACTIVE", Skater(30, 6, 20, 9, 60, 10, 30)),
      RawAgent("Starter", "Goalie", "ACTIVE", Netminder(31, 18, 75, 850, 2)),
      RawAgent("Backup", "Goalie", "DOUBTFUL", Netminder(4, 3, 8, 120, 1)),
      RawAgent("NoStats", "Center", "ACTIVE", MalformedStats("absent")),
      RawAgent("NullStats", "Center", "ACTIVE", MalformedStats("none")),
      RawAgent("NullGames", "Defense", "ACTIVE", MalformedStats("gp_none")),
      RawAgent("NoPosition", AbsentKey, "ACTIVE", Skater(10, 4, 4, 1, 20, 3, 1)) }

ShippedAllStarFile ==
    AllStarFile("ok", [n \in {"Crosby", "Makar", "Callup"} |->
                         CASE n = "Crosby" -> 5 [] n = "Makar" -> 3 [] OTHER -> 1])

RECURSIVE SeqsUpTo(_, _)
SeqsUpTo(S, n) ==
    IF n = 0 THEN {<<>>}
    ELSE LET shorter == SeqsUpTo(S, n - 1)
         IN  shorter \cup {Append(q, x) : q \in shorter, x \in S}

NoRat == Rat(0, 0)

NoPerGame == [analyzer |-> NoRat, dashboard |-> NoRat, team_analyzer |-> NoRat]

IdleStats ==
    /\ espn_total_stats = [shape |-> "none"]
    /\ player_stats = ZeroStats
    /\ per_game = NoPerGame

NoBonus == -1

IdleSwap ==
    /\ team_roster = <<>>
    /\ top_free_agents = <<>>
    /\ swap_targets = <<>>
    /\ swap_scores = <<>>
    /\ roster_recommendations = <<>>

IdleBonus ==
    /\ lookup_name = ""
    /\ analyzer_bonus = NoBonus
    /\ dashboard_bonus = NoBonus

NoTimestamp == -1
NoFetch == [team_data |-> "none", free_agents |-> "none"]
NoCollection == [returned |-> "none", exit_status |-> -1, result |-> "none"]

IdleSnapshots ==
    /\ snapshot_files = <<>>
    /\ clock = 0
    /\ run_timestamp = NoTimestamp
    /\ runs = 0
    /\ last_result = "none"
    /\ latest_before = <<>>
    /\ fetched = NoFetch
    /\ write_failed = {}
    /\ collection = NoCollection

\* analysis_config as imported: the tables of the module, nothing updated.
\* Weights in hundredths, min_value_score and min_fantasy_points in tenths.
IdleConfig ==
    /\ VALUE_SCORING = [weights |-> [fantasy_points_per_game |-> 50,
                                     consistency_rating |-> 25,
                                     upside_potential |-> 20,
                                     position_scarcity |-> 5]]
    /\ RECOMMENDATION_THRESHOLDS = [min_value_score |-> 40,
                                    min_fantasy_points |-> 20,
                                    min_games_played |-> 5,
                                    max_recommendations |-> 20]
    /\ config_updated = {}

\* No call of get_latest_data_file made yet.
NoRead ==
    [pattern |-> "none", listing |-> {}, newest |-> <<"none", NoTimestamp>>,
     returned |-> <<"pending", NoTimestamp>>]

IdleCleanup ==
    /\ all_star_mtime = 0
    /\ reader = NoRead

\* The jobs of ScheduledAnalyzer.setup_schedule, by the name of the method.
Jobs == {"run_analysis", "run_quick_check", "cleanup_files"}

\* No scheduler process.
IdleScheduler ==
    /\ due = {}
    /\ pending = {}
    /\ running = {}
    /\ loop_pc = "none"
    /\ due_events = 0
    /\ job_log = [j \in Jobs |-> "none"]

IdleOps == IdleConfig /\ IdleCleanup /\ IdleScheduler

IdleSide == IdleSwap /\ IdleBonus /\ IdleSnapshots /\ IdleOps

\* max_recommendations is a configuration value: 15 as shipped, and 2 so that
\* a pool of MaxPool players can exceed it.
Init ==
    /\ free_agents \in SeqsUpTo(FreeAgentPool, MaxPool)
    /\ all_star_file = ShippedAllStarFile
    /\ analysis_settings \in
         {[max_recommendations |-> m] : m \in {2, DefaultMaxRecommendations}}
    /\ openai_client \in BOOLEAN
    /\ analyzed_agents = <<>>
    /\ thresholds = NoThresholds
    /\ filtered_players = <<>>
    /\ recommendations = <<>>
    /\ outcome = "none"
    /\ narrative_failed = {}
    /\ pc = "start"
    /\ IdleStats
    /\ IdleSide

Next == analyze_player_pickups

Spec == Init /\ [][Next]_vars

----------------------------------------------------------------------------
(* Properties of the pipeline specification *)

Range(seq) == {seq[i] : i \in 1..Len(seq)}

Returned == pc = "done" /\ outcome = "ok"

\* C1: the returned recommendations are in descending order of value score,
\* and two recommendations with equal value scores keep the relative order
\* they had in the input pool.
C1_SortedDescendingStable ==
    pc = "done" =>
        \A i, j \in 1..Len(recommendations) :
            i < j =>
                /\ RatLeq(ValueScoreOf(free_agents, recommendations[j]),
                          ValueScoreOf(free_agents, recommendations[i]))
                /\ RatEq(ValueScoreOf(free_agents, recommendations[i]),
                         ValueScoreOf(free_agents, recommendations[j]))
                     => recommendations[i] < recommendations[j]

\* C1 witness: a returned list holding both a tie and a strict descent.
C1_Witness ==
    /\ Returned
    /\ \E i, j \in 1..Len(recommendations) :
          /\ i < j
          /\ RatEq(ValueScoreOf(free_agents, recommendations[i]),
                   ValueScoreOf(free_agents, recommendations[j]))
    /\ \E i, j \in 1..Len(recommendations) :
          /\ i < j
          /\ RatLess(ValueScoreOf(free_agents, recommendations[j]),
                     ValueScoreOf(free_agents, recommendations[i]))

\* C2: when the ranker returns, the survivors of its filter are exactly the
\* players with games_played >= min_games and total fantasy points >=
\* min_total_points, for the thresholds the selector gives on the same pool;
\* and no player failing either threshold is ever recommended.
C2_SurvivorsMeetBothThresholds ==
    pc = "done" =>
        LET th == _get_smart_thresholds(free_agents)
            Passes(i) ==
                /\ GamesPlayedOf(free_agents[i]) >= th.min_games
                /\ free_agents[i].fantasy_points >= 10 * th.min_total_points
        IN  /\ outcome = "ok" =>
                /\ thresholds = th
                /\ \A i \in 1..Len(free_agents) :
                      i \in Range(filtered_players) <=> Passes(i)
            /\ outcome = "ok" =>
                \A k \in 1..Len(recommendations) : Passes(recommendations[k])
            /\ outcome = "error" => recommendations = <<>>

\* C2 witness: a pool in which one player survives, one fails on games
\* played only and one fails on total points only.
C2_Witness ==
    /\ Returned
    /\ filtered_players # <<>>
    /\ \E i, j \in 1..Len(free_agents) :
          /\ GamesPlayedOf(free_agents[i]) < thresholds.min_games
          /\ free_agents[i].fantasy_points >= 10 * thresholds.min_total_points
          /\ GamesPlayedOf(free_agents[j]) >= thresholds.min_games
          /\ free_agents[j].fantasy_points < 10 * thresholds.min_total_points
          /\ free_agents[j].fantasy_points > 0

\* C3: the returned list has min(max_recommendations, number of survivors)
\* entries, all of them survivors, and no survivor left out has a strictly
\* higher value score than one included.
C3_TopKSelection ==
    Returned =>
        /\ Len(recommendations) =
             Min(analysis_settings.max_recommendations, Len(filtered_players))
        /\ Range(recommendations) \subseteq Range(filtered_players)
        /\ Cardinality(Range(recommendations)) = Len(recommendations)
        /\ \A out \in Range(filtered_players) \ Range(recommendations) :
             \A in \in Range(recommendations) :
                RatLeq(ValueScoreOf(free_agents, out),
                       ValueScoreOf(free_agents, in))

\* C3 witness: a truncated list, with a survivor left out whose value score
\* is strictly lower than that of every player returned.
C3_Witness ==
    /\ Returned
    /\ Len(filtered_players) > analysis_settings.max_recommendations
    /\ \E out \in Range(filtered_players) \ Range(recommendations) :
          \A in \in Range(recommendations) :
              RatLess(ValueScoreOf(free_agents, out),
                      ValueScoreOf(free_agents, in))

\* C4: a free agent whose scoring raises does not make the call abort: the
\* call returns normally, the failing player is kept as a candidate with
\* fantasy points 0 and the zero analysis, and every other player of the
\* pool is scored and, when it meets the thresholds, ranked.
C4_PartialFailureIsolation ==
    (pc = "done" /\ \E i \in 1..Len(free_agents) : ScoringRaises(free_agents[i])) =>
        /\ outcome = "ok"
        /\ \A i \in 1..Len(free_agents) :
              IF ScoringRaises(free_agents[i])
              THEN /\ i \in Range(analyzed_agents)
                   /\ free_agents[i].fantasy_points = 0
                   /\ free_agents[i].analysis = ZeroAnalysis
              ELSE /\ i \in Range(analyzed_agents)
                   /\ free_agents[i].analysis.recent_trend = "stable"
                   /\ free_agents[i].fantasy_points =
                        _calculate_fantasy_points(free_agents[i].stats)
                   /\ (/\ GamesPlayedOf(free_agents[i]) >= thresholds.min_games
                       /\ free_agents[i].fantasy_points >= 10 * thresholds.min_total_points)
                        => i \in Range(filtered_players)

----------------------------------------------------------------------------
(* Specification of the threshold selector alone *)

BenchPlayer(gp) == RawAgent("Player", "Center", "", Skater(gp, 0, 0, 0, 0, 0, 0))

\* Pools whose maximum games played runs over a whole season, alone or with
\* players of fewer games before and after.
ThresholdPools ==
    {<<>>} \cup
    { [i \in 1..Len(q) |-> BenchPlayer(q[i])] :
        q \in { front \o <<g>> \o back :
                  g \in 0..MaxSeasonGames,
                  front \in SeqsUpTo({0, 10}, 1),
                  back \in SeqsUpTo({0, 10}, 1) } }

Idle ==
    /\ all_star_file = ShippedAllStarFile
    /\ analysis_settings = [max_recommendations |-> DefaultMaxRecommendations]
    /\ openai_client = FALSE
    /\ analyzed_agents = <<>>
    /\ filtered_players = <<>>
    /\ recommendations = <<>>
    /\ outcome = "none"
    /\ narrative_failed = {}
    /\ IdleSide

InitThresholds ==
    /\ free_agents \in ThresholdPools
    /\ thresholds = NoThresholds
    /\ pc = "start"
    /\ Idle
    /\ IdleStats

get_smart_thresholds ==
    /\ pc = "start"
    /\ thresholds' = _get_smart_thresholds(free_agents)
    /\ pc' = "done"
    /\ UNCHANGED <<free_agents, all_star_file, analysis_settings, openai_client,
                   analyzed_agents, filtered_players, recommendations, outcome,
                   narrative_failed>>
    /\ UNCHANGED <<statVars, sideVars>>

NextThresholds == get_smart_thresholds

SpecThresholds == InitThresholds /\ [][NextThresholds]_vars

MaxGamesOfPool ==
    MaxOf([i \in 1..Len(free_agents) |-> GamesPlayedOf(free_agents[i])])

\* C7 as stated: for an empty pool, and for a pool whose maximum games played
\* is 0, the selector returns the fallback (3, 10).
C7_FallbackOnEmptyOrZeroMax ==
    (pc = "done" /\ (free_agents = <<>> \/ MaxGamesOfPool = 0)) =>
        thresholds = Thresholds(3, 10)

\* C7 amended: an empty pool gets the fallback (3, 10); a pool that is not
\* empty and whose maximum games played is 0 gets the early-season values
\* (1, 5).
C7_FallbackOnEmptyPoolOnly ==
    pc = "done" =>
        /\ free_agents = <<>> => thresholds = Thresholds(3, 10)
        /\ (free_agents # <<>> /\ MaxGamesOfPool = 0) => thresholds = Thresholds(1, 5)

\* C7 witness: the selector has run on a pool of players without a game.
C7_Witness ==
    pc = "done" /\ Len(free_agents) = 2 /\ MaxGamesOfPool = 0

\* C8: the branch bounds are inclusive: a maximum of 10 (or less) games gives
\* the early-season (1, 5), 11 gives the mid-season values (3, 10), 30 the
\* mid-season values (4, 24) and 31 the late-season values (6, 31).
C8_InclusiveBoundaries ==
    (pc = "done" /\ free_agents # <<>>) =>
        /\ MaxGamesOfPool <= 10 => thresholds = Thresholds(1, 5)
        /\ MaxGamesOfPool = 11 => thresholds = Thresholds(3, 10)
        /\ MaxGamesOfPool = 30 => thresholds = Thresholds(4, 24)
        /\ MaxGamesOfPool = 31 => thresholds = Thresholds(6, 31)

\* C8 witness: the selector has run on a pool of several players whose
\* maximum sits on the upper bound of the mid-season branch.
C8_Witness ==
    pc = "done" /\ Len(free_agents) = 3 /\ MaxGamesOfPool = 30

\* C9 as stated: the mid- and late-season thresholds round 0.15, 0.8, 0.2 and
\* 1.0 times the maximum games played to the nearest integer.
C9_ThresholdsRoundToNearest ==
    (pc = "done" /\ free_agents # <<>>) =>
        LET m == MaxGamesOfPool
        IN  /\ (11 <= m /\ m <= 30) =>
                 thresholds = Thresholds(Max(3, RoundOfPercent(m, 15)),
                                         Max(10, RoundOfPercent(m, 80)))
            /\ m > 30 =>
                 thresholds = Thresholds(Max(5, RoundOfPercent(m, 20)),
                                         Max(20, RoundOfPercent(m, 100)))

\* C9 amended: the mid- and late-season thresholds truncate: for a maximum m
\* in 11..30, min_games = max(3, floor(0.15 m)) and min_total_points =
\* max(10, floor(0.8 m)); for m > 30, min_games = max(5, floor(0.2 m)) and
\* min_total_points = max(20, m).
C9_ThresholdsTruncate ==
    (pc = "done" /\ free_agents # <<>>) =>
        LET m == MaxGamesOfPool
        IN  /\ (11 <= m /\ m <= 30) =>
                 /\ thresholds.min_games = Max(3, (15 * m) \div 100)
                 /\ thresholds.min_total_points = Max(10, (8 * m) \div 10)
            /\ m > 30 =>
                 /\ thresholds.min_games = Max(5, m \div 5)
                 /\ thresholds.min_total_points = Max(20, m)

\* C9 witness: the selector has run where truncating and rounding differ, in
\* the mid season and in the late season.
C9_Witness ==
    /\ pc = "done"
    /\ free_agents # <<>>
    /\ MaxGamesOfPool \in {24, 34}
    /\ thresholds.min_games < Max(3, RoundOfPercent(MaxGamesOfPool, 15))
         \/ thresholds.min_games < Max(5, RoundOfPercent(MaxGamesOfPool, 20))

----------------------------------------------------------------------------
(* Specification of the value score alone *)

ProbePoints == {-200, -15, 0, 1, 72, 300}

\* A player as the ranker sees it after scoring, with the total fantasy
\* points fp (in tenths) and the ratings given.
ProbePlayer(name, position, gp, fp, consistency, upside, injury) ==
    [RawAgent(name, position, "", Skater(gp, 0, 0, 0, 0, 0, 0)) EXCEPT
        !.fantasy_points = fp,
        !.fantasy_points_per_game = PerGame(fp, gp),
        !.analysis = [consistency_rating |-> consistency,
                      upside_potential |-> upside,
                      injury_risk |-> injury,
                      position_scarcity |-> _assess_position_scarcity(position),
                      recent_trend |-> "stable",
                      value_score |-> ZeroRat]]

\* Two players that differ in fantasy points per game only.
InitValueScore ==
    /\ \E name \in {"Crosby", "Callup", "Nobody"},
          position \in {"Goalie", "Defense", "Center", "G"},
          gp \in 0..MaxProbeGames,
          consistency \in {50, 100},
          upside \in {0, 100},
          injury \in {10, 100},
          lower \in ProbePoints, higher \in ProbePoints :
            /\ lower <= higher
            /\ free_agents =
                 <<ProbePlayer(name, position, gp, lower, consistency, upside, injury),
                   ProbePlayer(name, position, gp, higher, consistency, upside, injury)>>
    /\ all_star_file \in {ShippedAllStarFile, AllStarFile("missing", EmptyTable)}
    /\ analysis_settings = [max_recommendations |-> DefaultMaxRecommendations]
    /\ openai_client = FALSE
    /\ analyzed_agents = <<>>
    /\ thresholds = NoThresholds
    /\ filtered_players = <<>>
    /\ recommendations = <<>>
    /\ outcome = "none"
    /\ narrative_failed = {}
    /\ pc = "start"
    /\ IdleStats
    /\ IdleSide

\* The value-score loop of _rank_and_filter_players over the players.
calculate_value_scores ==
    /\ pc = "start"
    /\ free_agents' = [i \in 1..Len(free_agents) |->
                         [free_agents[i] EXCEPT !.analysis.value_score =
                             _calculate_value_score(free_agents[i], all_star_file)]]
    /\ pc' = "done"
    /\ UNCHANGED <<all_star_file, analysis_settings, openai_client,
                   analyzed_agents, thresholds, filtered_players,
                   recommendations, outcome, narrative_failed>>
    /\ UNCHANGED <<statVars, sideVars>>

NextValueScore == calculate_value_scores

SpecValueScore == InitValueScore /\ [][NextValueScore]_vars

\* C5: the value score is never negative.
C5_ValueScoreNonNegative ==
    pc = "done" =>
        \A i \in 1..Len(free_agents) :
            /\ free_agents[i].analysis.value_score.den > 0
            /\ free_agents[i].analysis.value_score.num >= 0

\* C5 witness: a value score has been computed for a player whose weighted
\* sum is negative (fantasy points per game below -10, ratings at most 10).
C5_Witness ==
    /\ pc = "done"
    /\ RatLess(free_agents[1].fantasy_points_per_game, Rat(-10, 1))
    /\ free_agents[1].analysis.value_score.num = 0

\* C6: of two players equal in position, ratings, historical bonus and games
\* played, the one with the higher fantasy points per game never has the
\* lower value score.
C6_MonotoneInPerGame ==
    pc = "done" =>
        \A i, j \in 1..Len(free_agents) :
            RatLeq(free_agents[i].fantasy_points_per_game,
                   free_agents[j].fantasy_points_per_game)
              => RatLeq(free_agents[i].analysis.value_score,
                        free_agents[j].analysis.value_score)

\* C6 witness: value scores computed for two goalies of a small sample, one
\* with negative and one with higher, also negative, fantasy points per
\* game, and for which the clamp acts.
C6_Witness ==
    /\ pc = "done"
    /\ free_agents[1].position = "Goalie"
    /\ GamesPlayedOf(free_agents[1]) < 5
    /\ RatLess(free_agents[1].fantasy_points_per_game,
               free_agents[2].fantasy_points_per_game)
    /\ RatLess(free_agents[2].fantasy_points_per_game, ZeroRat)
    /\ free_agents[1].analysis.value_score.num = 0
    /\ free_agents[2].analysis.value_score.num > 0

----------------------------------------------------------------------------
(* Per-game rates: src/espn_client.py, src/analyzer.py, src/dashboard.py,
   src/openai_team_analyzer.py *)

\* stat_mapping of _calculate_fantasy_points_from_stats
stat_mapping ==
    [goals |-> "G", assists |-> "A", powerplay_points |-> "PPP",
     shorthanded_points |-> "SHP", shots_on_goal |-> "SOG", hits |-> "HIT",
     blocks |-> "BLK", wins |-> "W", goals_against |-> "GA", saves |-> "SV",
     shutouts |-> "SO", overtime_losses |-> "OTL"]

\* The season totals of the data source; shape "bad" stands for a value
\* that makes the extraction raise.
ZeroTotals ==
    [shape |-> "dict", GP |-> 0, GS |-> 0, G |-> 0, A |-> 0, PPP |-> 0,
     SHP |-> 0, SOG |-> 0, HIT |-> 0, BLK |-> 0, W |-> 0, GA |-> 0, SV |-> 0,
     SO |-> 0, OTL |-> 0]

RECURSIVE SumOverMapped(_, _)
SumOverMapped(total_stats, cats) ==
    IF cats = {} THEN 0
    ELSE LET c == CHOOSE x \in cats : TRUE
         IN  total_stats[stat_mapping[c]] * SCORING_CATEGORIES[c]
             + SumOverMapped(total_stats, cats \ {c})

\* Total fantasy points of the season totals, in tenths.
_calculate_fantasy_points_from_stats(total_stats) ==
    SumOverMapped(total_stats, Categories)

\* The stat line with the two derived entries of _get_player_stats.
StatLine(stats, fantasy_points, fantasy_points_per_game) ==
    [k \in DOMAIN stats \cup {"fantasy_points", "fantasy_points_per_game"} |->
        IF k = "fantasy_points" THEN fantasy_points
        ELSE IF k = "fantasy_points_per_game" THEN fantasy_points_per_game
        ELSE stats[k]]

_get_player_stats(total_stats) ==
    IF total_stats.shape # "dict"
    THEN StatLine(ZeroStats, 0, ZeroRat)
    ELSE LET games_played == IF total_stats.GP = 0 THEN total_stats.GS
                             ELSE total_stats.GP
             fantasy_points == _calculate_fantasy_points_from_stats(total_stats)
             fantasy_points_per_game ==
                 IF games_played > 0
                 THEN Rat(fantasy_points, 10 * games_played)
                 ELSE ZeroRat
         IN  StatLine([ZeroStats EXCEPT
                          !.games_played = games_played,
                          !.goals = total_stats.G,
                          !.assists = total_stats.A,
                          !.points = total_stats.G + total_stats.A,
                          !.powerplay_points = total_stats.PPP,
                          !.shorthanded_points = total_stats.SHP,
                          !.shots_on_goal = total_stats.SOG,
                          !.hits = total_stats.HIT,
                          !.blocks = total_stats.BLK,
                          !.wins = total_stats.W,
                          !.goals_against = total_stats.GA,
                          !.saves = total_stats.SV,
                          !.shutouts = total_stats.SO,
                          !.overtime_losses = total_stats.OTL],
                      fantasy_points, fantasy_points_per_game)

\* dashboard.calculate_fantasy_points_per_game
calculate_fantasy_points_per_game(stats) ==
    LET total_points == SumOverCategories(stats, Categories)
        games_played == Max(stats.games_played, 1)
    IN  Rat(total_points, 10 * games_played)

\* OpenAITeamAnalyzer._calculate_fantasy_points_per_game
_calculate_fantasy_points_per_game(stats) ==
    LET total_points == SumOverCategories(stats, Categories)
        games_played == Max(stats.games_played, 1)
    IN  Rat(total_points, 10 * games_played)

RawTotals ==
    { [ZeroTotals EXCEPT !.GP = gp, !.GS = gs, !.G = g, !.W = w, !.GA = ga, !.SV = sv] :
        gp \in 0..MaxRawGames, gs \in 0..1, g \in 0..2, w \in 0..1,
        ga \in 0..2, sv \in {0, 10} }
    \cup {[ZeroTotals EXCEPT !.shape = "bad"]}

InitPerGame ==
    /\ espn_total_stats \in RawTotals
    /\ player_stats = ZeroStats
    /\ per_game = NoPerGame
    /\ free_agents = <<>>
    /\ thresholds = NoThresholds
    /\ pc = "raw"
    /\ Idle

get_player_stats ==
    /\ pc = "raw"
    /\ player_stats' = _get_player_stats(espn_total_stats)
    /\ pc' = "stats"
    /\ UNCHANGED <<espn_total_stats, per_game>>
    /\ UNCHANGED <<pickupVars, sideVars>>

\* The per-game derivation at the head of the loop of analyze_player_pickups.
analyzer_per_game ==
    /\ pc = "stats"
    /\ per_game.analyzer = NoRat
    /\ per_game' = [per_game EXCEPT !.analyzer =
            ScoreAgent(RawAgent("Player", "Center", "", player_stats)).fantasy_points_per_game]
    /\ UNCHANGED <<espn_total_stats, player_stats, pc>>
    /\ UNCHANGED <<pickupVars, sideVars>>

dashboard_per_game ==
    /\ pc = "stats"
    /\ per_game.dashboard = NoRat
    /\ per_game' = [per_game EXCEPT !.dashboard =
                       calculate_fantasy_points_per_game(player_stats)]
    /\ UNCHANGED <<espn_total_stats, player_stats, pc>>
    /\ UNCHANGED <<pickupVars, sideVars>>

team_analyzer_per_game ==
    /\ pc = "stats"
    /\ per_game.team_analyzer = NoRat
    /\ per_game' = [per_game EXCEPT !.team_analyzer =
                       _calculate_fantasy_points_per_game(player_stats)]
    /\ UNCHANGED <<espn_total_stats, player_stats, pc>>
    /\ UNCHANGED <<pickupVars, sideVars>>

NextPerGame ==
    \/ get_player_stats
    \/ analyzer_per_game
    \/ dashboard_per_game
    \/ team_analyzer_per_game

SpecPerGame == InitPerGame /\ [][NextPerGame]_vars

\* C10: every per-game rate derived for a stat line with games_played = 0
\* equals the total fantasy points of that stat line: the rate stored by
\* _get_player_stats and the rates the analyzer, the dashboard and the team
\* analyzer derive.
C10_PerGameEqualsTotalAtZeroGames ==
    (pc = "stats" /\ player_stats.games_played = 0) =>
        LET total == Rat(SumOverCategories(player_stats, Categories), 10)
        IN  /\ RatEq(player_stats.fantasy_points_per_game,
                     Rat(player_stats.fantasy_points, 10))
            /\ per_game.analyzer # NoRat => RatEq(per_game.analyzer, total)
            /\ per_game.dashboard # NoRat => RatEq(per_game.dashboard, total)
            /\ per_game.team_analyzer # NoRat => RatEq(per_game.team_analyzer, total)

----------------------------------------------------------------------------
(* Historical bonus lookup of the dashboard: src/dashboard.py *)

\* The table get_historical_bonus falls back to when the file does not
\* exist, restricted to the names the model uses.
HardcodedAllStars ==
    [n \in {"Sidney Crosby", "Claude Giroux", "Cale Makar", "Adam Fox",
            "Devon Toews"} |->
        CASE n = "Sidney Crosby" -> 5
          [] n = "Claude Giroux" -> 3
          [] n = "Cale Makar" -> 2
          [] n = "Adam Fox" -> 1
          [] OTHER -> 0]

\* Historical bonus, in hundredths.  A file that exists but cannot be parsed
\* raises inside the try block, and the handler returns 0.0.
get_historical_bonus(name, file) ==
    IF file.status = "malformed" THEN 0
    ELSE LET all_star_players == IF file.status = "ok" THEN file.appearances
                                 ELSE HardcodedAllStars
             appearances == IF name \in DOMAIN all_star_players
                            THEN all_star_players[name] ELSE 0
         IN  IF appearances >= 5 THEN 40
             ELSE IF appearances >= 3 THEN 35
             ELSE IF appearances >= 2 THEN 30
             ELSE IF appearances >= 1 THEN 20
             ELSE 0

----------------------------------------------------------------------------
(* Swap evaluator: src/openai_team_analyzer.py *)

\* x - y and x + k of floats, exactly.
RatSub(x, y) == Rat(x.num * y.den - y.num * x.den, x.den * y.den)
RatAddInt(x, k) == Rat(x.num + k * x.den, x.den)

\* f"{x:.1f}": x rounded to one decimal, in tenths.
FormatTenths(x) ==
    LET q == (10 * x.num) \div x.den
        r == (10 * x.num) % x.den
    IN  IF 2 * r < x.den THEN q
        ELSE IF 2 * r > x.den THEN q + 1
        ELSE IF q % 2 = 0 THEN q ELSE q + 1

\* position_matches.get(position, [])
position_matches(position) ==
    IF position \in {"Goalie", "Defense", "Center", "Left Wing", "Right Wing"}
    THEN {position} ELSE {}

\* player.get("fantasy_points_per_game", 0), recomputed from the stat line
\* when it is 0.
CurrentPerGame(player) ==
    IF player.fantasy_points_per_game.num = 0
    THEN _calculate_fantasy_points_per_game(player.stats)
    ELSE player.fantasy_points_per_game

\* list.sort(key, reverse=True) by insertion: x goes after every placed
\* element whose key is greater than or equal to its own.
InsertByKeyDescending(key, placed, x) ==
    LET ahead == {i \in 1..Len(placed) : RatLeq(key[x], key[placed[i]])}
        n == IF ahead = {} THEN 0 ELSE CHOOSE i \in ahead : \A j \in ahead : j <= i
    IN  SubSeq(placed, 1, n) \o <<x>> \o SubSeq(placed, n + 1, Len(placed))

RECURSIVE SortedByKeyDescending(_, _, _)
SortedByKeyDescending(key, placed, refs) ==
    IF refs = <<>> THEN placed
    ELSE SortedByKeyDescending(key, InsertByKeyDescending(key, placed, Head(refs)),
                               Tail(refs))

\* The sort keyed on the agent's own rate instead of the improvement, lowest first.
SwapTargetsWorstFirst(player, agents) ==
    LET player_fp_per_game == CurrentPerGame(player)
        matching_positions == position_matches(player.position)
        Better(a) == /\ agents[a].position \in matching_positions
                     /\ RatLess(player_fp_per_game, agents[a].fantasy_points_per_game)
        potential_targets == SelectSeq(Refs(Len(agents)), Better)
        key == [i \in 1..Len(agents) |->
                  RatSub(player_fp_per_game, agents[i].fantasy_points_per_game)]
        sorted == SortedByKeyDescending(key, <<>>, potential_targets)
    IN  SubSeq(sorted, 1, Min(3, Len(sorted)))

\* The result holds references into agents.
_find_swap_targets(player, agents) ==
    IF agents = <<>> THEN <<>>
    ELSE LET player_fp_per_game == CurrentPerGame(player)
             matching_positions == position_matches(player.position)
             Better(a) ==
                 /\ agents[a].position \in matching_positions
                 /\ RatLess(player_fp_per_game, agents[a].fantasy_points_per_game)
             potential_targets == SelectSeq(Refs(Len(agents)), Better)
             key == [i \in 1..Len(agents) |->
                       RatSub(agents[i].fantasy_points_per_game, player_fp_per_game)]
             sorted == SortedByKeyDescending(key, <<>>, potential_targets)
         IN  SubSeq(sorted, 1, Min(3, Len(sorted)))

SampleBonus(target_games) ==
    IF target_games >= 5 THEN 2 ELSE IF target_games >= 3 THEN 1 ELSE 0

HistoricalTierBonus(target_historical) ==
    IF target_historical > 30 THEN 3
    ELSE IF target_historical > 20 THEN 2
    ELSE IF target_historical > 10 THEN 1
    ELSE 0

InjuryPenalty(target_injury) ==
    IF LowerContains(target_injury, "out") THEN 5
    ELSE IF LowerContains(target_injury, "doubtful") THEN 2
    ELSE IF LowerContains(target_injury, "questionable") THEN 1
    ELSE 0

\* The score with the injury term added instead of subtracted.
SwapScoreInjuryAdded(current_player, target_player, file) ==
    LET fp_improvement == RatSub(target_player.fantasy_points_per_game,
                                 CurrentPerGame(current_player))
        bonus == SampleBonus(GamesPlayedOf(target_player))
                 + HistoricalTierBonus(get_historical_bonus(target_player.name, file))
                 + InjuryPenalty(target_player.injury_status)
    IN  RatAddInt(fp_improvement, bonus)

_calculate_swap_score(current_player, target_player, file) ==
    LET current_fp_per_game == CurrentPerGame(current_player)
        target_fp_per_game == target_player.fantasy_points_per_game
        fp_improvement == RatSub(target_fp_per_game, current_fp_per_game)
        bonus == SampleBonus(GamesPlayedOf(target_player))
                 + HistoricalTierBonus(get_historical_bonus(target_player.name, file))
                 - InjuryPenalty(target_player.injury_status)
    IN  RatAddInt(fp_improvement, bonus)

\* One part of a rationale: the text of the f-string with the values it
\* interpolates, names apart from numbers (numbers in tenths as formatted).
Part(text, names, numbers) == [text |-> text, names |-> names, numbers |-> numbers]

\* The position depth counting the agents that beat the given rate.
DepthAgainst(position, agents, rate) ==
    LET Matching(a) == agents[a].position \in position_matches(position)
        position_players ==
            SortedByKeyDescending(
                [i \in 1..Len(agents) |-> agents[i].fantasy_points_per_game],
                <<>>, SelectSeq(Refs(Len(agents)), Matching))
    IN  [total_available |-> Len(position_players),
         better_players |->
             Cardinality({i \in Range(position_players) :
                            RatLess(rate, agents[i].fantasy_points_per_game)}),
         best_available |-> IF position_players = <<>> THEN 0
                            ELSE position_players[1]]

\* best_available is a reference into agents, 0 for None.
_analyze_position_depth(position, agents) ==
    IF agents = <<>>
    THEN [total_available |-> 0, better_players |-> 0, best_available |-> 0]
    ELSE DepthAgainst(position, agents, ZeroRat)

_get_performance_context(player) ==
    LET fp_per_game == player.fantasy_points_per_game
        games_played == GamesPlayedOf(player)
        sample == IF games_played >= 10 THEN "Strong sample size"
                  ELSE IF games_played >= 5 THEN "Decent sample size"
                  ELSE IF games_played >= 3 THEN "Limited sample size"
                  ELSE "Very small sample"
        level == IF RatLeq(Rat(5, 1), fp_per_game) THEN "Elite performance"
                 ELSE IF RatLeq(Rat(3, 1), fp_per_game) THEN "Strong performance"
                 ELSE IF RatLeq(Rat(2, 1), fp_per_game) THEN "Solid performance"
                 ELSE IF RatLeq(Rat(1, 1), fp_per_game) THEN "Average performance"
                 ELSE "Below average performance"
    \* the two labels joined by a bullet
    IN  Part("{} / {}", <<sample, level>>, <<>>)

\* f"{historical_bonus:.1f}" of the four bonus values; the double nearest
\* 0.35 lies below it and prints as 0.3.
FormatBonus(historical_bonus) ==
    CASE historical_bonus = 40 -> 4
      [] historical_bonus = 35 -> 3
      [] historical_bonus = 30 -> 3
      [] historical_bonus = 20 -> 2
      [] OTHER -> 0

_generate_detailed_keep_rationale(player, agents, file) ==
    LET player_fp_per_game == CurrentPerGame(player)
        position_analysis == _analyze_position_depth(player.position, agents)
        scarcity ==
            IF position_analysis.total_available = 0
            THEN Part("No {}s available in free agency", <<player.position>>, <<>>)
            ELSE IF position_analysis.total_available <= 3
            THEN Part("Very limited {} options available ({} total)",
                      <<player.position>>, <<position_analysis.total_available>>)
            ELSE Part("Analyzed {} available {}s",
                      <<player.position>>, <<position_analysis.total_available>>)
        comparison ==
            IF position_analysis.better_players = 0
            THEN Part("No players with better FP/G found", <<>>, <<>>)
            ELSE Part("Found {} players with higher FP/G", <<>>,
                      <<position_analysis.better_players>>)
        best ==
            IF position_analysis.best_available = 0 THEN <<>>
            ELSE LET best_available == agents[position_analysis.best_available]
                     fp_diff == RatSub(best_available.fantasy_points_per_game,
                                       player_fp_per_game)
                 IN  IF RatLeq(fp_diff, ZeroRat)
                     THEN <<Part("Best available ({}) has {} FP/G vs your {}",
                                 <<best_available.name>>,
                                 <<FormatTenths(best_available.fantasy_points_per_game),
                                   FormatTenths(player_fp_per_game)>>)>>
                     ELSE <<Part("Best available ({}) only +{} FP/G improvement",
                                 <<best_available.name>>, <<FormatTenths(fp_diff)>>)>>
        historical_bonus == get_historical_bonus(player.name, file)
        historical ==
            IF historical_bonus > 10
            THEN <<Part("Strong historical track record ({} bonus)", <<>>,
                        <<FormatBonus(historical_bonus)>>)>>
            ELSE <<>>
        injury ==
            IF player.injury_status # "ACTIVE"
            THEN <<Part("Currently {}", <<player.injury_status>>, <<>>)>>
            ELSE <<>>
    IN  <<scarcity, comparison>> \o best \o <<_get_performance_context(player)>>
        \o historical \o injury

\* The rationale reduced to its overall assessment.
LowScoreVerdictOnly(player, target, swap_score, file) ==
    IF RatLess(swap_score, ZeroRat)
    THEN <<Part("Swap would be a downgrade", <<>>, <<>>)>>
    ELSE IF RatLess(swap_score, Rat(2, 1))
    THEN <<Part("Minimal improvement, not worth the risk", <<>>, <<>>)>>
    ELSE <<Part("Small improvement, consider holding", <<>>, <<>>)>>

_generate_low_score_rationale(player, target, swap_score, file) ==
    LET player_fp_per_game == CurrentPerGame(player)
        target_fp_per_game == target.fantasy_points_per_game
        fp_improvement == RatSub(target_fp_per_game, player_fp_per_game)
        comparison ==
            IF RatLeq(fp_improvement, ZeroRat)
            THEN Part("Best option ({}) has {} FP/G vs your {}", <<target.name>>,
                      <<FormatTenths(target_fp_per_game),
                        FormatTenths(player_fp_per_game)>>)
            ELSE Part("Best option ({}) only +{} FP/G improvement", <<target.name>>,
                      <<FormatTenths(fp_improvement)>>)
        player_games == GamesPlayedOf(player)
        target_games == GamesPlayedOf(target)
        sample ==
            IF player_games >= 5 /\ target_games < 3
            THEN <<Part("Your player has more reliable sample size", <<>>, <<>>)>>
            ELSE IF target_games >= 5 /\ player_games < 3
            THEN <<Part("Target has more reliable sample size", <<>>, <<>>)>>
            ELSE <<>>
        player_historical == get_historical_bonus(player.name, file)
        target_historical == get_historical_bonus(target.name, file)
        historical ==
            IF player_historical > target_historical + 10
            THEN <<Part("Your player has stronger historical track record", <<>>, <<>>)>>
            ELSE IF target_historical > player_historical + 10
            THEN <<Part("Target has stronger historical track record", <<>>, <<>>)>>
            ELSE <<>>
        injury ==
            IF player.injury_status = "ACTIVE" /\ target.injury_status # "ACTIVE"
            THEN <<Part("Your player is healthy, target is not", <<>>, <<>>)>>
            ELSE IF target.injury_status = "ACTIVE" /\ player.injury_status # "ACTIVE"
            THEN <<Part("Target is healthy, your player is not", <<>>, <<>>)>>
            ELSE <<>>
        overall ==
            IF RatLess(swap_score, ZeroRat)
            THEN Part("Swap would be a downgrade", <<>>, <<>>)
            ELSE IF RatLess(swap_score, Rat(2, 1))
            THEN Part("Minimal improvement, not worth the risk", <<>>, <<>>)
            ELSE Part("Small improvement, consider holding", <<>>, <<>>)
    IN  <<comparison>> \o sample \o historical \o injury \o <<overall>>

NoScore == NoRat

\* The thresholds taken as exclusive.
ClassifyExclusive(swap_score) ==
    IF RatLess(Rat(15, 1), swap_score) THEN "Must Swap"
    ELSE IF RatLess(Rat(5, 1), swap_score) THEN "Consider Swap"
    ELSE "Keep"

\* The if/elif/else on swap_score of analyze_team_roster.
Classify(swap_score) ==
    IF RatLeq(Rat(15, 1), swap_score) THEN "Must Swap"
    ELSE IF RatLeq(Rat(5, 1), swap_score) THEN "Consider Swap"
    ELSE "Keep"

\* One iteration of the loop of analyze_team_roster: the entry stored under
\* the player's name, with the locals the claims speak about.
EvaluatePlayer(player, agents, file) ==
    LET player_fp_per_game == CurrentPerGame(player)
        targets == _find_swap_targets(player, agents)
    IN  IF targets # <<>>
        THEN LET best_target == agents[targets[1]]
                 swap_score == _calculate_swap_score(player, best_target, file)
                 actual_fp_improvement ==
                     RatSub(best_target.fantasy_points_per_game, player_fp_per_game)
             IN  [swap_targets |-> targets,
                  swap_score |-> swap_score,
                  recommendation |-> Classify(swap_score),
                  rationale |->
                      IF Classify(swap_score) = "Must Swap"
                      THEN <<Part("Strong upgrade available: {} (+{} FP/G improvement)",
                                  <<best_target.name>>,
                                  <<FormatTenths(actual_fp_improvement)>>)>>
                      ELSE IF Classify(swap_score) = "Consider Swap"
                      THEN <<Part("Moderate upgrade: {} (+{} FP/G improvement)",
                                  <<best_target.name>>,
                                  <<FormatTenths(actual_fp_improvement)>>)>>
                      ELSE _generate_low_score_rationale(player, best_target,
                                                         swap_score, file)]
        ELSE [swap_targets |-> <<>>,
              swap_score |-> NoScore,
              recommendation |-> "Keep",
              rationale |-> _generate_detailed_keep_rationale(player, agents, file)]

\* None.lower() in _calculate_swap_score or in a rationale: AttributeError,
\* which the handler of analyze_team_roster turns into an empty result.
RosterAnalysisRaises(roster, agents) ==
    \/ \E i \in 1..Len(roster) : roster[i].injury_status = NoneValue
    \/ \E i \in 1..Len(agents) : agents[i].injury_status = NoneValue

\* recommendations[player_name] = {...}, in roster order: a later player
\* replaces the entry of an earlier one of the same name.
analyze_team_roster ==
    /\ pc = "start"
    /\ team_roster # <<>>
    /\ LET evaluated == [i \in 1..Len(team_roster) |->
                           EvaluatePlayer(team_roster[i], top_free_agents,
                                          all_star_file)]
           names == {team_roster[i].name : i \in 1..Len(team_roster)}
           LastOf(n) == CHOOSE i \in 1..Len(team_roster) :
                           /\ team_roster[i].name = n
                           /\ \A j \in 1..Len(team_roster) :
                                 team_roster[j].name = n => j <= i
       IN  IF RosterAnalysisRaises(team_roster, top_free_agents)
           THEN /\ swap_targets' = <<>>
                /\ swap_scores' = <<>>
                /\ roster_recommendations' = EmptyTable
           ELSE /\ swap_targets' = [i \in 1..Len(team_roster) |->
                                      evaluated[i].swap_targets]
                /\ swap_scores' = [i \in 1..Len(team_roster) |->
                                     evaluated[i].swap_score]
                /\ roster_recommendations' =
                     [n \in names |->
                        [recommendation |-> evaluated[LastOf(n)].recommendation,
                         rationale |-> evaluated[LastOf(n)].rationale]]
    /\ pc' = "done"
    /\ UNCHANGED <<team_roster, top_free_agents>>
    /\ UNCHANGED <<pickupVars, statVars, bonusVars, snapshotVars, opsVars>>

----------------------------------------------------------------------------
(* Specification of the swap evaluator alone *)

MaxSwapPool == 4

\* A recommended free agent as the recommendations file holds it.
Recommended(name, position, injury, stats) ==
    ScoreAgent(RawAgent(name, position, injury, stats))

\* Defensemen at 1.0, 2.0, 3.0, 5.0 and 18.0 fantasy points per game, and a
\* center.
SwapAgentPool ==
    { Recommended("Depth", "Defense", "DOUBTFUL", Skater(10, 5, 0, 0, 0, 0, 0)),
      Recommended("Journeyman", "Defense", "ACTIVE", Skater(10, 10, 0, 0, 0, 0, 0)),
      Recommended("Adam Fox", "Defense", "QUESTIONABLE", Skater(3, 4, 1, 0, 0, 0, 0)),
      Recommended("Prospect", "Defense", "ACTIVE", Skater(10, 25, 0, 0, 0, 0, 0)),
      Recommended("Cale Makar", "Defense", "ACTIVE", Skater(1, 9, 0, 0, 0, 0, 0)),
      Recommended("Claude Giroux", "Center", "OUT", Skater(3, 3, 0, 0, 0, 0, 0)) }

\* Rosters as get_my_team delivers them: no top-level
\* fantasy_points_per_game, injury_status "" when the source has none.
SwapRosters ==
    { <<RawAgent("Devon Toews", "Defense", "ACTIVE", Skater(10, 10, 0, 0, 0, 0, 0))>>,
      <<RawAgent("Slumper", "Defense", "", Skater(0, 0, 0, 0, 0, 0, 0))>>,
      <<RawAgent("Sidney Crosby", "Center", "ACTIVE", Skater(10, 5, 8, 3, 30, 5, 2)),
        RawAgent("Anchor", "Defense", "DAY_TO_DAY", Skater(12, 27, 0, 0, 0, 0, 0))>>,
      <<RawAgent("Sieve", "Goalie", "ACTIVE", Netminder(5, 0, 20, 50, 0)),
        RawAgent("Flex", "Forward", "ACTIVE", Skater(2, 1, 1, 0, 2, 0, 0)),
        RawAgent("Devon Toews", "Defense", "ACTIVE", Skater(10, 10, 0, 0, 0, 0, 0))>> }

SwapAllStarFile ==
    AllStarFile("ok", [n \in {"Cale Makar", "Claude Giroux", "Adam Fox"} |->
                         CASE n = "Cale Makar" -> 5
                           [] n = "Claude Giroux" -> 3
                           [] OTHER -> 1])

IdlePickups ==
    /\ free_agents = <<>>
    /\ analysis_settings = [max_recommendations |-> DefaultMaxRecommendations]
    /\ openai_client = FALSE
    /\ analyzed_agents = <<>>
    /\ thresholds = NoThresholds
    /\ filtered_players = <<>>
    /\ recommendations = <<>>
    /\ outcome = "none"
    /\ narrative_failed = {}

InitSwap ==
    /\ team_roster \in SwapRosters
    /\ top_free_agents \in SeqsUpTo(SwapAgentPool, MaxSwapPool)
    /\ all_star_file \in {SwapAllStarFile, AllStarFile("missing", EmptyTable)}
    /\ swap_targets = <<>>
    /\ swap_scores = <<>>
    /\ roster_recommendations = <<>>
    /\ pc = "start"
    /\ IdlePickups
    /\ IdleStats
    /\ IdleBonus
    /\ IdleSnapshots
    /\ IdleOps

NextSwap == analyze_team_roster

SpecSwap == InitSwap /\ [][NextSwap]_vars

----------------------------------------------------------------------------
(* Properties of the swap evaluator *)

Evaluated == pc = "done" /\ team_roster # <<>>

RosterRefs == 1..Len(team_roster)

\* The rate of a roster player: the stat line's total over max(games, 1).
RosterRate(i) == _calculate_fantasy_points_per_game(team_roster[i].stats)

AgentRate(a) == top_free_agents[a].fantasy_points_per_game

\* The free agents of the position of roster player i whose rate strictly
\* exceeds that player's.
BetterAgents(i) ==
    {a \in 1..Len(top_free_agents) :
        /\ top_free_agents[a].position = team_roster[i].position
        /\ RatLess(RosterRate(i), AgentRate(a))}

\* C11: the swap targets of a roster player are at most 3 distinct free
\* agents, each of the player's position and with fantasy points per game
\* strictly above the player's, in descending order of improvement; no agent
\* left out improves more than one that is in, so the best one is first.
C11_SwapTargetsSelection ==
    Evaluated =>
        \A i \in RosterRefs :
            LET targets == swap_targets[i]
            IN  /\ Len(targets) <= 3
                /\ Range(targets) \subseteq BetterAgents(i)
                /\ \A j, k \in 1..Len(targets) :
                      j < k => /\ targets[j] # targets[k]
                               /\ RatLeq(AgentRate(targets[k]), AgentRate(targets[j]))
                /\ BetterAgents(i) # {} => targets # <<>>
                /\ \A a \in BetterAgents(i) \ Range(targets) :
                      /\ Len(targets) = 3
                      /\ \A k \in 1..3 : RatLeq(AgentRate(a), AgentRate(targets[k]))

\* C11 witness: a defenseman at 2.0 per game against a pool holding
\* defensemen at 1.0, 3.0 and 5.0: the 5.0 one is first, the 3.0 one second.
C11_Witness ==
    /\ Evaluated
    /\ \E i \in RosterRefs :
          /\ team_roster[i].position = "Defense"
          /\ RatEq(RosterRate(i), Rat(2, 1))
          /\ \E a, b, c \in 1..Len(top_free_agents) :
                /\ top_free_agents[a].position = "Defense"
                /\ RatEq(AgentRate(a), Rat(1, 1))
                /\ RatEq(AgentRate(b), Rat(3, 1))
                /\ RatEq(AgentRate(c), Rat(5, 1))
                /\ swap_targets[i] = <<c, b>>

\* The best target of roster player i, when it has one.
BestTarget(i) == top_free_agents[swap_targets[i][1]]

EntryOf(i) == roster_recommendations[team_roster[i].name]

\* C12: the swap score of a roster player against its best target is the
\* target's rate minus the player's rate (the rate the targets were selected
\* against), plus 2 when the target played 5 games or more and 1 when it
\* played 3 or 4, plus 3, 2 or 1 by the bracket of the target's historical
\* bonus, minus 5, 2 or 1 when the target is out, doubtful or questionable.
C12_SwapScoreFormula ==
    Evaluated =>
        \A i \in RosterRefs :
            swap_targets[i] # <<>> =>
                LET target == BestTarget(i)
                    games == target.stats.games_played
                    sample == IF games >= 5 THEN 2 ELSE IF games >= 3 THEN 1 ELSE 0
                    historical == get_historical_bonus(target.name, all_star_file)
                    tier == CASE historical >= 35 -> 3
                              [] historical = 30 -> 2
                              [] historical = 20 -> 1
                              [] OTHER -> 0
                    penalty == CASE target.injury_status = "OUT" -> 5
                                 [] target.injury_status = "DOUBTFUL" -> 2
                                 [] target.injury_status = "QUESTIONABLE" -> 1
                                 [] OTHER -> 0
                IN  RatEq(swap_scores[i],
                          RatAddInt(RatSub(AgentRate(swap_targets[i][1]), RosterRate(i)),
                                    sample + tier - penalty))

\* C12 witness: a best target with a sample bonus, a historical bonus and an
\* injury penalty at once: 3.0 against 2.0, plus 1, plus 1, minus 1.
C12_Witness ==
    /\ Evaluated
    /\ \E i \in RosterRefs :
          /\ swap_targets[i] # <<>>
          /\ BestTarget(i).stats.games_played >= 3
          /\ get_historical_bonus(BestTarget(i).name, all_star_file) > 0
          /\ BestTarget(i).injury_status = "QUESTIONABLE"
          /\ RatEq(swap_scores[i], Rat(2, 1))

\* C13: a roster player with no free agent of its position at a strictly
\* higher rate is classified Keep; otherwise the classification follows the
\* score of the best target: Must Swap from 15 up, Consider Swap from 5 up
\* to below 15, Keep below 5.
C13_SwapClassification ==
    Evaluated =>
        \A i \in RosterRefs :
            IF BetterAgents(i) = {}
            THEN EntryOf(i).recommendation = "Keep"
            ELSE /\ RatLeq(Rat(15, 1), swap_scores[i])
                      => EntryOf(i).recommendation = "Must Swap"
                 /\ (RatLeq(Rat(5, 1), swap_scores[i]) /\ RatLess(swap_scores[i], Rat(15, 1)))
                      => EntryOf(i).recommendation = "Consider Swap"
                 /\ RatLess(swap_scores[i], Rat(5, 1))
                      => EntryOf(i).recommendation = "Keep"

\* C13 witness: a player at 2.0 against a healthy 10-game target at 5.0
\* without historical bonus, next to an agent at 2.0 that is no target: the
\* score is exactly 5 and the player is classified Consider Swap.
C13_Witness ==
    /\ Evaluated
    /\ \E i \in RosterRefs :
          /\ RatEq(RosterRate(i), Rat(2, 1))
          /\ \E a \in 1..Len(top_free_agents) :
                /\ top_free_agents[a].position = team_roster[i].position
                /\ RatEq(AgentRate(a), Rat(2, 1))
                /\ a \notin Range(swap_targets[i])
          /\ swap_targets[i] # <<>>
          /\ RatEq(AgentRate(swap_targets[i][1]), Rat(5, 1))
          /\ RatEq(swap_scores[i], Rat(5, 1))
          /\ EntryOf(i).recommendation = "Consider Swap"

\* C14: every roster player has an entry with a recommendation among Keep,
\* Consider Swap and Must Swap and a rationale of at least one part; when
\* the player has a swap target, one part of the rationale names the best
\* target and gives the difference of the two rates to one decimal.
C14_EveryPlayerHasRationale ==
    Evaluated =>
        \A i \in RosterRefs :
            /\ team_roster[i].name \in DOMAIN roster_recommendations
            /\ EntryOf(i).recommendation \in {"Keep", "Consider Swap", "Must Swap"}
            /\ EntryOf(i).rationale # <<>>
            /\ \A k \in 1..Len(EntryOf(i).rationale) : EntryOf(i).rationale[k].text # ""
            /\ BetterAgents(i) # {} =>
                  \E k \in 1..Len(EntryOf(i).rationale) :
                      LET part == EntryOf(i).rationale[k]
                      IN  /\ part.names = <<BestTarget(i).name>>
                          /\ part.numbers =
                               <<FormatTenths(RatSub(AgentRate(swap_targets[i][1]),
                                                     RosterRate(i)))>>

\* C14 witness: a player kept although a target exists (score below 5).
C14_Witness ==
    /\ Evaluated
    /\ \E i \in RosterRefs :
          /\ swap_targets[i] # <<>>
          /\ RatLess(swap_scores[i], Rat(5, 1))
          /\ EntryOf(i).recommendation = "Keep"
          /\ EntryOf(i).rationale[1].names = <<BestTarget(i).name>>

\* The number of players a comparison part reports as having a higher rate.
ReportedBetter(part) ==
    IF part.text = "No players with better FP/G found" THEN 0
    ELSE part.numbers[1]

\* C15: for a roster player without swap targets, the first part of the
\* rationale reports how many free agents of the player's position were
\* considered, and the second part reports as players with a higher rate
\* exactly the number of those agents whose rate strictly exceeds the
\* player's.
C15_KeepRationaleCountsBetterAgents ==
    Evaluated =>
        \A i \in RosterRefs :
            swap_targets[i] = <<>> =>
                LET rationale == EntryOf(i).rationale
                    same_position ==
                        {a \in 1..Len(top_free_agents) :
                            top_free_agents[a].position = team_roster[i].position}
                IN  /\ EntryOf(i).recommendation = "Keep"
                    /\ IF same_position = {}
                       THEN rationale[1].text = "No {}s available in free agency"
                       ELSE rationale[1].numbers = <<Cardinality(same_position)>>
                    /\ ReportedBetter(rationale[2]) = Cardinality(BetterAgents(i))

----------------------------------------------------------------------------
(* Specification of the two historical-bonus lookups *)

MaxAppearances == 6

\* The reference table file: readable with a table over some of the names,
\* missing, or present but not parseable.
AllStarFiles ==
    { AllStarFile("ok", [n \in names |-> IF n = "Sidney Crosby" THEN c ELSE m]) :
        names \in SUBSET {"Sidney Crosby", "Cale Makar"},
        c \in 0..MaxAppearances, m \in 0..MaxAppearances }
    \cup {AllStarFile("missing", EmptyTable), AllStarFile("malformed", EmptyTable)}

\* "" is player.get("name", "") of a record without a name.
LookupNames == {"Sidney Crosby", "Cale Makar", "Adam Fox", "Devon Toews", "Nobody", ""}

InitBonus ==
    /\ all_star_file \in AllStarFiles
    /\ lookup_name \in LookupNames
    /\ analyzer_bonus = NoBonus
    /\ dashboard_bonus = NoBonus
    /\ pc = "start"
    /\ IdlePickups
    /\ IdleStats
    /\ IdleSwap
    /\ IdleSnapshots
    /\ IdleOps

\* FantasyHockeyAnalyzer._calculate_historical_bonus on a player of that name.
calculate_historical_bonus ==
    /\ analyzer_bonus = NoBonus
    /\ analyzer_bonus' = _calculate_historical_bonus([name |-> lookup_name],
                                                      all_star_file)
    /\ pc' = IF dashboard_bonus # NoBonus THEN "done" ELSE pc
    /\ UNCHANGED <<lookup_name, dashboard_bonus>>
    /\ UNCHANGED <<pickupVars, statVars, swapVars, snapshotVars, opsVars>>

\* dashboard.get_historical_bonus(name), as the swap evaluator calls it.
dashboard_historical_bonus ==
    /\ dashboard_bonus = NoBonus
    /\ dashboard_bonus' = get_historical_bonus(lookup_name, all_star_file)
    /\ pc' = IF analyzer_bonus # NoBonus THEN "done" ELSE pc
    /\ UNCHANGED <<lookup_name, analyzer_bonus>>
    /\ UNCHANGED <<pickupVars, statVars, swapVars, snapshotVars, opsVars>>

NextBonus ==
    \/ calculate_historical_bonus
    \/ dashboard_historical_bonus

SpecBonus == InitBonus /\ [][NextBonus]_vars

\* The count the table of the file holds for the name looked up, 0 when the
\* name is not in it.
CountInFile ==
    IF lookup_name \in DOMAIN all_star_file.appearances
    THEN all_star_file.appearances[lookup_name] ELSE 0

\* C16: with a readable table, each of the two lookups returns 0.4 for a
\* count of 5 or more, 0.35 for 3 or 4, 0.3 for 2, 0.2 for 1 and 0.0 for 0
\* or for a name the table does not hold; so the two return the same bonus.
C16_BonusStepFunction ==
    all_star_file.status = "ok" =>
        LET step == CASE CountInFile >= 5 -> 40
                      [] CountInFile \in {3, 4} -> 35
                      [] CountInFile = 2 -> 30
                      [] CountInFile = 1 -> 20
                      [] OTHER -> 0
        IN  /\ analyzer_bonus # NoBonus => analyzer_bonus = step
            /\ dashboard_bonus # NoBonus => dashboard_bonus = step

\* C16 witness: both lookups made on a readable table that holds the name
\* with 3 appearances, both returning 0.35.
C16_Witness ==
    /\ pc = "done"
    /\ all_star_file.status = "ok"
    /\ CountInFile = 3
    /\ analyzer_bonus = 35
    /\ dashboard_bonus = 35

\* C17: when the table file is missing or cannot be parsed, each of the two
\* lookups returns 0.0, whatever the name.
C17_BonusFailOpen ==
    all_star_file.status # "ok" =>
        /\ analyzer_bonus # NoBonus => analyzer_bonus = 0
        /\ dashboard_bonus # NoBonus => dashboard_bonus = 0

----------------------------------------------------------------------------
(* Snapshot files of the pipeline: src/pipeline.py, src/scheduler.py,
   src/cron_service.py, src/utils.py *)

\* The files one run writes, in the order of _save_raw_data and
\* _save_results; each name is the category followed by run_timestamp.
WriteOrder ==
    <<"team_data", "free_agents", "standings", "matchup_data", "all_teams_data",
      "combined_data", "recommendations", "analysis_report", "summary">>

Categories5 == {"team_data", "free_agents", "standings", "recommendations", "summary"}

NoFile == <<"none", NoTimestamp>>

\* open(path, "w") followed by the dump: the file of that name is created or
\* replaced; complete is FALSE when the process was killed inside the dump.
WriteFiles(files, names, run, now, partial) ==
    [f \in DOMAIN files \cup names \cup partial |->
        IF f \in names THEN [run |-> run, mtime |-> now, complete |-> TRUE]
        ELSE IF f \in partial THEN [run |-> run, mtime |-> now, complete |-> FALSE]
        ELSE files[f]]

\* The name of the most recently modified file whose name holds the pattern.
get_latest_data_file(files, pattern) ==
    LET matching == {f \in DOMAIN files : f[1] = pattern}
    IN  IF matching = {} THEN NoFile
        ELSE CHOOSE f \in matching :
                \A g \in matching : files[g].mtime <= files[f].mtime

\* What a consumer reads as the latest snapshot of a category: the file
\* chosen and the run whose output it holds.
LatestSnapshot(files, category) ==
    LET f == get_latest_data_file(files, category)
    IN  IF f = NoFile THEN [name |-> NoFile, run |-> 0, complete |-> TRUE]
        ELSE [name |-> f, run |-> files[f].run, complete |-> files[f].complete]

MaxRuns == 2

\* FantasyHockeyPipeline.__init__ , by pipeline.main of a new process or by
\* ScheduledAnalyzer.__init__: run_timestamp is the time of construction.
new_pipeline ==
    /\ runs < MaxRuns
    /\ run_timestamp # clock
    /\ run_timestamp' = clock
    /\ UNCHANGED <<snapshot_files, clock, runs, last_result, latest_before,
                   fetched, write_failed, collection>>
    /\ UNCHANGED <<pickupVars, statVars, swapVars, bonusVars, opsVars, pc>>

\* Mutant of Collected: the data-collection test is left out.
CollectedAlways(team_data, agents) == TRUE

\* `not team_data or not free_agents` is false: get_my_team returned a team
\* dict (with or without players on its roster) and get_free_agents a
\* non-empty list.  Each of the two returns its empty value when the fetch
\* raises, and get_my_team also when the team id is not in the league.
Collected(team_data, agents) == team_data # "{}" /\ agents # "[]"

\* One call of run_full_analysis on a pipeline object with that timestamp,
\* on the inputs i:
\*   team_data, free_agents: what get_my_team and get_free_agents return;
\*   failing:   the position in WriteOrder of the write that raises (0: none);
\*              truncated: the dump had begun, so a partial file is left.
\*              save_data_to_file (1..6) and save_analysis (7) log the
\*              exception and return; the report (8) and the summary (9) are
\*              written by open() in _save_results and the exception reaches
\*              the handler of run_full_analysis.
\*   stop:      the number of writes passed when the call ends for another
\*              reason: an exception in analyze_player_pickups (0), in
\*              generate_report (6), in building the summary (8), or the
\*              process being killed; 9 when nothing of the kind happens.
\*   killed:    "no", or the process is killed between two writes or inside
\*              the dump of the next one.
PipelineRun(files, timestamp, run, now, i) ==
    LET collected == Collected(i.team_data, i.free_agents)
        attempted == collected /\ i.failing # 0 /\ i.failing <= i.stop
        raising == attempted /\ i.failing >= 8
        last == IF ~collected THEN 0
                ELSE IF raising THEN i.failing - 1 ELSE i.stop
        names == {<<WriteOrder[k], timestamp>> : k \in (1..last) \ {i.failing}}
        cut == IF collected /\ ~raising /\ i.killed = "in_write"
                  /\ i.stop < Len(WriteOrder)
               THEN {<<WriteOrder[i.stop + 1], timestamp>>} ELSE {}
        torn == IF attempted /\ i.truncated
                THEN {<<WriteOrder[i.failing], timestamp>>} ELSE {}
    IN  [files |-> WriteFiles(files, names, run, now, cut \cup torn),
         write_failed |-> IF attempted THEN {WriteOrder[i.failing]} ELSE {},
         result |-> IF ~collected THEN "error"
                    ELSE IF raising THEN "failed"
                    ELSE IF i.killed # "no" THEN "killed"
                    ELSE IF i.stop = Len(WriteOrder) THEN "success"
                    ELSE "failed"]

\* The inputs of a run: exceptions outside the writes arise only where a
\* statement of the try block can raise; a kill, where the caller can kill,
\* can fall anywhere.
RunInputs(kills) ==
    {i \in [team_data : {"{}", "team"}, free_agents : {"[]", "agents"},
            failing : 0..Len(WriteOrder), truncated : BOOLEAN,
            stop : 0..Len(WriteOrder), killed : kills] :
        /\ i.killed = "no" => i.stop \in {0, 6, 8, Len(WriteOrder)}
        /\ i.killed = "in_write" => i.stop < Len(WriteOrder)
        /\ i.truncated => i.failing # 0
        /\ ~Collected(i.team_data, i.free_agents) =>
              i.failing = 0 /\ i.stop = Len(WriteOrder) /\ i.killed = "no"}

\* run_full_analysis on the live pipeline object, some time after the call
\* before it (ScheduledAnalyzer.run_analysis, or pipeline.main).
run_full_analysis ==
    /\ runs < MaxRuns
    /\ run_timestamp # NoTimestamp
    /\ \E i \in RunInputs({"no"}) :
          LET now == clock + 1
              r == PipelineRun(snapshot_files, run_timestamp, runs + 1, now, i)
          IN  /\ snapshot_files' = r.files
              /\ last_result' = r.result
              /\ write_failed' = r.write_failed
              /\ fetched' = [team_data |-> i.team_data,
                             free_agents |-> i.free_agents]
              /\ latest_before' = [c \in Categories5 |->
                                     LatestSnapshot(snapshot_files, c)]
              /\ clock' = now
              /\ runs' = runs + 1
    /\ UNCHANGED <<run_timestamp, collection>>
    /\ UNCHANGED <<pickupVars, statVars, swapVars, bonusVars, opsVars, pc>>

MaxCollections == 1

\* cron_service.main: run_data_collection starts `python pipeline.py` as a
\* child process with a timeout of 600 s and returns True exactly when the
\* child exits with status 0.  The child builds a pipeline of its own
\* (ESPNFantasyClient.__init__ re-raises a failed connection: the child ends
\* with a traceback and status 1), calls run_full_analysis, prints the
\* outcome and returns from pipeline.main whatever the result was.  A child
\* still running at the timeout is killed and TimeoutExpired is caught.
run_data_collection ==
    /\ runs < MaxCollections
    /\ \E connected \in BOOLEAN, i \in RunInputs({"no", "between", "in_write"}) :
          LET timestamp == clock + 1
              now == clock + 2
              r == PipelineRun(snapshot_files, timestamp, runs + 1, now, i)
              returncode == IF ~connected THEN 1
                            ELSE IF r.result = "killed" THEN -9 ELSE 0
              success == returncode = 0
          IN  /\ snapshot_files' = IF connected THEN r.files ELSE snapshot_files
              /\ last_result' = IF connected THEN r.result ELSE "crashed"
              /\ write_failed' = IF connected THEN r.write_failed ELSE {}
              /\ fetched' = IF connected
                            THEN [team_data |-> i.team_data,
                                  free_agents |-> i.free_agents]
                            ELSE NoFetch
              /\ collection' = [returned |-> IF success THEN "True" ELSE "False",
                                exit_status |-> IF success THEN 0 ELSE 1,
                                result |-> IF connected THEN r.result ELSE "crashed"]
              /\ latest_before' = [c \in Categories5 |->
                                     LatestSnapshot(snapshot_files, c)]
              /\ clock' = now
              /\ runs' = runs + 1
    /\ UNCHANGED run_timestamp
    /\ UNCHANGED <<pickupVars, statVars, swapVars, bonusVars, opsVars, pc>>

\* Either no snapshot yet, or the complete snapshot of an earlier process.
InitSnapshots ==
    /\ snapshot_files \in
         {<<>>, WriteFiles(<<>>, {<<WriteOrder[k], 0>> : k \in 1..Len(WriteOrder)},
                           0, 0, {})}
    /\ clock = 1
    /\ run_timestamp = NoTimestamp
    /\ runs = 0
    /\ last_result = "none"
    /\ latest_before = <<>>
    /\ fetched = NoFetch
    /\ write_failed = {}
    /\ collection = NoCollection
    /\ pc = "start"
    /\ IdlePickups
    /\ all_star_file = ShippedAllStarFile
    /\ IdleStats
    /\ IdleSwap
    /\ IdleBonus
    /\ IdleOps

NextSnapshots ==
    \/ new_pipeline
    \/ run_full_analysis

SpecSnapshots == InitSnapshots /\ [][NextSnapshots]_vars

\* The weekly cron job: every collection is a process of its own.
NextCollection == run_data_collection

SpecCollection == InitSnapshots /\ [][NextCollection]_vars

\* C19: a step never removes, replaces or modifies a snapshot file that
\* exists: every run writes under names no earlier run wrote.
C19_SnapshotsImmutable ==
    [][\A f \in DOMAIN snapshot_files :
          /\ f \in DOMAIN snapshot_files'
          /\ snapshot_files'[f] = snapshot_files[f]]_vars

\* C20: after a run that did not succeed, the latest file of each of the
\* five categories is the file that was the latest before the run, with the
\* content it had.
C20_FailedRunKeepsLatest ==
    last_result \in {"error", "failed", "killed", "crashed"} =>
        \A c \in Categories5 :
            LatestSnapshot(snapshot_files, c) = latest_before[c]

\* C21: when get_my_team or get_free_agents returned its empty value, the
\* call returned the error result, no write was attempted and no file,
\* complete or partial, holds output of that run.
C21_NoPersistenceWithoutData ==
    (fetched.team_data = "{}" \/ fetched.free_agents = "[]") =>
        /\ last_result = "error"
        /\ write_failed = {}
        /\ \A f \in DOMAIN snapshot_files : snapshot_files[f].run # runs

\* C21 witness: the second run of a pipeline whose first run wrote its
\* files finds no team, and returns the error result.
C21_Witness ==
    /\ runs = 2
    /\ fetched.team_data = "{}"
    /\ last_result = "error"
    /\ \E f \in DOMAIN snapshot_files : snapshot_files[f].run = 1

\* C22: a run in which the write of a snapshot file raised does not return
\* status "success".
C22_WriteFailureFailsRun ==
    write_failed # {} => last_result # "success"

\* C27: run_data_collection returns True, and cron_service.main exits with
\* status 0, only when the run of the child process completed with status
\* "success"; after an error result, an exception or a timeout it returns
\* False and main exits with status 1.
C27_CollectionTrueOnlyOnSuccess ==
    collection # NoCollection =>
        /\ collection.returned = "True" <=> collection.exit_status = 0
        /\ collection.returned = "True" => collection.result = "success"
        /\ collection.result # "success" =>
              collection.returned = "False" /\ collection.exit_status = 1

\* A free agent of that position that analyze_player_pickups has scored.
ScoredAt(i, positions) ==
    /\ pc = "done"
    /\ i \in 1..Len(free_agents)
    /\ free_agents[i].position \in positions
    /\ free_agents[i].analysis.recent_trend = "stable"

\* C23: among scored players whose position is one of the strings the
\* positional multiplier tests, every Goalie has a higher position scarcity
\* than every Defense player, and every Defense player a higher one than
\* every Center, Left Wing and Right Wing.
C23_ScarcityOrder ==
    \A i, j \in 1..Len(free_agents) :
        /\ ScoredAt(i, {"Goalie"}) /\ ScoredAt(j, {"Defense"}) =>
              free_agents[i].analysis.position_scarcity
                > free_agents[j].analysis.position_scarcity
        /\ ScoredAt(i, {"Defense"})
           /\ ScoredAt(j, {"Center", "Left Wing", "Right Wing"}) =>
              free_agents[i].analysis.position_scarcity
                > free_agents[j].analysis.position_scarcity

----------------------------------------------------------------------------
(* The named configuration: src/analysis_config.py, src/config.py,
   src/analyzer.py *)

\* The weights dict of _calculate_value_score, in hundredths.
weights ==
    [fantasy_points_per_game |-> 40, consistency_rating |-> 25,
     upside_potential |-> 25, position_scarcity |-> 10, injury_risk |-> 10]

MaxConfigPool == 2

\* update_value_score_weight(factor, new_weight), called before a ranking.
update_value_score_weight ==
    /\ pc = "start"
    /\ \E factor \in DOMAIN weights, new_weight \in {0} :
          IF factor \in DOMAIN VALUE_SCORING.weights
          THEN /\ VALUE_SCORING' =
                    [VALUE_SCORING EXCEPT !.weights[factor] = new_weight]
               /\ config_updated' = config_updated \cup {factor}   \* True
          ELSE UNCHANGED <<VALUE_SCORING, config_updated>>        \* False
    /\ UNCHANGED <<RECOMMENDATION_THRESHOLDS, all_star_mtime, reader, schedulerVars>>
    /\ UNCHANGED <<pickupVars, statVars, swapVars, bonusVars, snapshotVars, pc>>

\* update_recommendation_threshold(threshold, new_value), called before a
\* ranking.
update_recommendation_threshold ==
    /\ pc = "start"
    /\ \E threshold \in {"max_recommendations", "max_recs"}, new_value \in {1} :
          IF threshold \in DOMAIN RECOMMENDATION_THRESHOLDS
          THEN /\ RECOMMENDATION_THRESHOLDS' =
                    [RECOMMENDATION_THRESHOLDS EXCEPT ![threshold] = new_value]
               /\ config_updated' = config_updated \cup {threshold}   \* True
          ELSE UNCHANGED <<RECOMMENDATION_THRESHOLDS, config_updated>> \* False
    /\ UNCHANGED <<VALUE_SCORING, all_star_mtime, reader, schedulerVars>>
    /\ UNCHANGED <<pickupVars, statVars, swapVars, bonusVars, snapshotVars, pc>>

\* An analyzer built from config.ANALYSIS_SETTINGS, on a small pool.
InitConfig ==
    /\ Init
    /\ Len(free_agents) <= MaxConfigPool
    /\ analysis_settings.max_recommendations = DefaultMaxRecommendations
    /\ ~openai_client

NextConfig ==
    \/ update_value_score_weight
    \/ update_recommendation_threshold
    \/ analyze_player_pickups

SpecConfig == InitConfig /\ [][NextConfig]_vars

\* The value score of _calculate_value_score computed with the weights w.
ValueScoreWith(w, player, file) ==
    LET analysis == player.analysis
        n == player.fantasy_points_per_game.num
        d == player.fantasy_points_per_game.den
        weighted == 2 * w.fantasy_points_per_game * n
                    + d * ((w.consistency_rating \div 5) * analysis.consistency_rating
                           + (w.upside_potential \div 5) * analysis.upside_potential
                           + (w.position_scarcity \div 5) * analysis.position_scarcity
                           + (w.injury_risk \div 5) * analysis.injury_risk)
        positioned == weighted * PositionMultiplier(player.position)
        bonused == positioned + _calculate_historical_bonus(player, file) * 200 * d
        penalised == bonused * SamplePenalty(GamesPlayedOf(player))
    IN  Rat(Max(0, penalised), 200000 * d)

\* The weights the ranking has to use: those of the code, with each factor
\* that an update call has set replaced by the configured value.
ConfiguredWeights ==
    [f \in DOMAIN weights |->
        IF f \in config_updated THEN VALUE_SCORING.weights[f] ELSE weights[f]]

\* C24: a ranking made after update_value_score_weight(factor, w) returned
\* True has value scores computed with weight w for that factor, and one
\* made after update_recommendation_threshold("max_recommendations", n)
\* returned True is truncated to n.
C24_RankerUsesNamedConfiguration ==
    Returned =>
        /\ "max_recommendations" \in config_updated =>
              Len(recommendations) =
                 Min(RECOMMENDATION_THRESHOLDS.max_recommendations,
                     Len(filtered_players))
        /\ \A r \in Range(recommendations) :
              RatEq(free_agents[r].analysis.value_score,
                    ValueScoreWith(ConfiguredWeights, free_agents[r], all_star_file))

----------------------------------------------------------------------------
(* Value score: order of the steps, and the injury term *)

\* The value score as the steps are ordered: the weighted sum s (times
\* 200 d for fantasy points per game n/d), times the positional multiplier,
\* plus the bonus, times the sample penalty below five games, clamped at 0.
OrderedValueScore(player, file) ==
    LET n == player.fantasy_points_per_game.num
        d == player.fantasy_points_per_game.den
        gp == GamesPlayedOf(player)
        sum == 80 * n + d * (5 * player.analysis.consistency_rating
                             + 5 * player.analysis.upside_potential
                             + 2 * player.analysis.position_scarcity
                             + 2 * player.analysis.injury_risk)
        multiplier == CASE player.position = "Goalie" -> 60
                        [] player.position = "Defense" -> 115
                        [] player.position \in {"Center", "Left Wing", "Right Wing"} -> 100
                        [] OTHER -> 100
        with_bonus == sum * multiplier
                      + _calculate_historical_bonus(player, file) * 200 * d
        penalty == IF 5 - gp >= 5 THEN 5 ELSE 10 - (5 - gp)
        total == IF gp < 5 THEN with_bonus * penalty ELSE with_bonus * 10
    IN  Rat(IF total < 0 THEN 0 ELSE total, 200000 * d)

\* C25: the value score is the weighted sum, times the positional
\* multiplier, plus the unscaled historical bonus, times the sample penalty
\* when games_played < 5 (bonus included), clamped at 0; from five games on
\* no penalty is applied.
C25_ValueScoreOrder ==
    pc = "done" =>
        \A i \in 1..Len(free_agents) :
            RatEq(free_agents[i].analysis.value_score,
                  OrderedValueScore(free_agents[i], all_star_file))

\* C25 witness: the value score of a goalie with a historical bonus and
\* three games played, and of one with five games, has been computed.
C25_Witness ==
    /\ pc = "done"
    /\ free_agents[1].position = "Goalie"
    /\ free_agents[1].name = "Crosby"
    /\ all_star_file.status = "ok"
    /\ GamesPlayedOf(free_agents[1]) \in {3, 5}
    /\ free_agents[1].analysis.value_score.num > 0

MaxInjuryGames == 5

\* Two players that differ in injury status only, scored as
\* _analyze_player_metrics scores them.
InitInjury ==
    /\ \E name \in {"Crosby", "Nobody"},
          position \in {"Goalie", "Defense", "Center"},
          gp \in 0..MaxInjuryGames,
          fp \in ProbePoints,
          first \in InjuryStatuses, second \in InjuryStatuses :
            LET probe(status) ==
                    [ProbePlayer(name, position, gp, fp, 50, 100,
                         _assess_injury_risk([injury_status |-> status]))
                       EXCEPT !.injury_status = status]
            IN  free_agents = <<probe(first), probe(second)>>
    /\ all_star_file = ShippedAllStarFile
    /\ analysis_settings = [max_recommendations |-> DefaultMaxRecommendations]
    /\ openai_client = FALSE
    /\ analyzed_agents = <<>>
    /\ thresholds = NoThresholds
    /\ filtered_players = <<>>
    /\ recommendations = <<>>
    /\ outcome = "none"
    /\ narrative_failed = {}
    /\ pc = "start"
    /\ IdleStats
    /\ IdleSide

SpecInjury == InitInjury /\ [][NextValueScore]_vars

\* C26: of two players equal in everything but injury status, the one with
\* the lower injury risk never has the lower value score.
C26_HealthyNeverScoresLower ==
    pc = "done" =>
        \A i, j \in 1..Len(free_agents) :
            free_agents[i].analysis.injury_risk < free_agents[j].analysis.injury_risk
              => RatLeq(free_agents[j].analysis.value_score,
                        free_agents[i].analysis.value_score)

----------------------------------------------------------------------------
(* Cleanup of data/, output/ and reports/ and the readers of the latest
   snapshot: src/utils.py, src/scheduler.py, src/cleanup_data.py.
   In this part clock and the modification times count days. *)

MaxDay == 16

\* The directory a file of that category is written to, as the days
\* ScheduledAnalyzer.cleanup_files keeps its files: data/ 7, output/ 14,
\* reports/ 30.
DaysToKeep(category) ==
    CASE category \in {"recommendations", "summary"} -> 14
      [] category = "analysis_report" -> 30
      [] OTHER -> 7

\* The files that remain when every cleanup_old_files removes the files
\* older than its cutoff.
FilesAfterCleanup(files, now) ==
    LET kept == {f \in DOMAIN files : ~(files[f].mtime < now - DaysToKeep(f[1]))}
    IN  [f \in kept |-> files[f]]

\* ScheduledAnalyzer.cleanup_files: cleanup_old_files("data", 7),
\* ("output", 14) and ("reports", 30).  Every regular file of the directory
\* whose modification time is below the cutoff is removed, whatever its
\* name: in data/ that includes all_star_appearances.json.
cleanup_files ==
    /\ pc = "start" \/ pc = "listed"
    /\ snapshot_files' = FilesAfterCleanup(snapshot_files, clock)
    /\ all_star_file' = IF all_star_file.status # "missing"
                           /\ all_star_mtime < clock - DaysToKeep("all_star_appearances")
                        THEN AllStarFile("missing", EmptyTable)
                        ELSE all_star_file
    /\ UNCHANGED <<free_agents, analysis_settings, openai_client,
                   analyzed_agents, thresholds, filtered_players,
                   recommendations, outcome, narrative_failed>>
    /\ UNCHANGED <<clock, run_timestamp, runs, last_result, latest_before,
                   fetched, write_failed, collection>>
    /\ UNCHANGED <<statVars, swapVars, bonusVars, opsVars, pc>>

\* cleanup_data.cleanup_all_directories: for each of the nine patterns the
\* most recently modified file is kept and the others are removed;
\* all_star_appearances.json is looked at and never removed.
cleanup_all_directories ==
    /\ pc = "start" \/ pc = "listed"
    /\ LET kept == {f \in DOMAIN snapshot_files :
                       f = get_latest_data_file(snapshot_files, f[1])}
       IN  snapshot_files' = [f \in kept |-> snapshot_files[f]]
    /\ UNCHANGED <<clock, run_timestamp, runs, last_result, latest_before,
                   fetched, write_failed, collection>>
    /\ UNCHANGED <<pickupVars, statVars, swapVars, bonusVars, opsVars, pc>>

\* A day passes.
next_day ==
    /\ clock < MaxDay
    /\ clock' = clock + 1
    /\ UNCHANGED <<snapshot_files, run_timestamp, runs, last_result,
                   latest_before, fetched, write_failed, collection>>
    /\ UNCHANGED <<pickupVars, statVars, swapVars, bonusVars, opsVars, pc>>

\* get_latest_data_file(directory, pattern), first statement: os.listdir and
\* the filter `pattern in f`.
list_matching_files ==
    /\ pc = "start"
    /\ \E pattern \in Categories5 :
          reader' = [pattern |-> pattern,
                     listing |-> {f \in DOMAIN snapshot_files : f[1] = pattern},
                     newest |-> get_latest_data_file(snapshot_files, pattern),
                     returned |-> <<"pending", NoTimestamp>>]
    /\ pc' = "listed"
    /\ UNCHANGED <<VALUE_SCORING, RECOMMENDATION_THRESHOLDS, config_updated,
                   all_star_mtime, schedulerVars>>
    /\ UNCHANGED <<pickupVars, statVars, swapVars, bonusVars, snapshotVars>>

\* get_latest_data_file, the rest: None for an empty list; files.sort calls
\* os.path.getmtime for every listed name, and for a name removed since the
\* listing it raises FileNotFoundError, which the handler turns into None.
return_latest_file ==
    /\ pc = "listed"
    /\ reader' = [reader EXCEPT !.returned =
                    IF reader.listing = {} THEN NoFile
                    ELSE IF reader.listing \subseteq DOMAIN snapshot_files
                    THEN get_latest_data_file(snapshot_files, reader.pattern)
                    ELSE NoFile]
    /\ pc' = "start"
    /\ UNCHANGED <<VALUE_SCORING, RECOMMENDATION_THRESHOLDS, config_updated,
                   all_star_mtime, schedulerVars>>
    /\ UNCHANGED <<pickupVars, statVars, swapVars, bonusVars, snapshotVars>>

\* The snapshots of one, two or three weekly runs, the last one made today;
\* the reference table was written with, or a week before, the first.
InitCleanup ==
    /\ \E weeks \in 1..3 :
          /\ snapshot_files =
               [f \in {<<WriteOrder[k], 7 * w>> :
                          k \in 1..Len(WriteOrder), w \in 0..(weeks - 1)} |->
                  [run |-> f[2] \div 7, mtime |-> f[2], complete |-> TRUE]]
          /\ clock = 7 * (weeks - 1)
    /\ all_star_mtime \in {-7, 0}
    /\ reader = NoRead
    /\ IdleConfig
    /\ IdleScheduler
    /\ run_timestamp = NoTimestamp
    /\ runs = 0
    /\ last_result = "none"
    /\ latest_before = <<>>
    /\ fetched = NoFetch
    /\ write_failed = {}
    /\ collection = NoCollection
    /\ pc = "start"
    /\ IdlePickups
    /\ all_star_file = ShippedAllStarFile
    /\ IdleStats
    /\ IdleSwap
    /\ IdleBonus

NextCleanup ==
    \/ cleanup_files
    \/ cleanup_all_directories
    \/ next_day
    \/ list_matching_files
    \/ return_latest_file

SpecCleanup == InitCleanup /\ [][NextCleanup]_vars

\* C28: a step of a cleanup routine leaves, in every category that had a
\* file, the most recent file of that category in place, and leaves the
\* reference table in place.
C28_CleanupKeepsLatest ==
    [][(snapshot_files' # snapshot_files \/ all_star_file' # all_star_file) =>
          /\ \A c \in {WriteOrder[k] : k \in 1..Len(WriteOrder)} :
                LET latest == get_latest_data_file(snapshot_files, c)
                IN  latest # NoFile =>
                      /\ latest \in DOMAIN snapshot_files'
                      /\ get_latest_data_file(snapshot_files', c) = latest
          /\ all_star_file.status = "ok" => all_star_file'.status = "ok"]_vars

\* C29: a call of get_latest_data_file returns (None or a name), and when
\* the most recent matching file at the time of the listing is still there
\* after the call, the call has returned that file.
C29_ReaderReturnsLatest ==
    (pc = "start" /\ reader # NoRead) =>
        /\ reader.returned = NoFile \/ reader.returned \in reader.listing
        /\ reader.newest # NoFile /\ reader.newest \in DOMAIN snapshot_files =>
              reader.returned = reader.newest

----------------------------------------------------------------------------
(* The scheduler loop: src/scheduler.py.  schedule.run_pending() collects
   the jobs that are due and calls their functions one after the other in
   the calling thread; an exception leaving a job function leaves
   run_pending and the `while True` loop of run_scheduler. *)

MaxDueEvents == 4

\* Time passes and the next run time of a job is reached, whatever the
\* thread of the loop is doing.
job_comes_due ==
    /\ loop_pc # "none"
    /\ due_events < MaxDueEvents
    /\ \E j \in Jobs \ due : due' = due \cup {j}
    /\ due_events' = due_events + 1
    /\ UNCHANGED <<pending, running, loop_pc, job_log>>
    /\ UNCHANGED <<VALUE_SCORING, RECOMMENDATION_THRESHOLDS, config_updated,
                   all_star_mtime, reader>>
    /\ UNCHANGED <<pickupVars, statVars, swapVars, bonusVars, snapshotVars, pc>>

\* schedule.run_pending(), after time.sleep(60): the jobs due now.
run_pending ==
    /\ loop_pc = "sleep"
    /\ due # {}
    /\ pending' = due
    /\ loop_pc' = "run_pending"
    /\ UNCHANGED <<due, running, due_events, job_log>>
    /\ UNCHANGED <<VALUE_SCORING, RECOMMENDATION_THRESHOLDS, config_updated,
                   all_star_mtime, reader>>
    /\ UNCHANGED <<pickupVars, statVars, swapVars, bonusVars, snapshotVars, pc>>

\* run_pending calls the function of the next job: run_analysis,
\* run_quick_check or cleanup_files begins.
start_job ==
    /\ loop_pc = "run_pending"
    /\ \E j \in pending : running' = running \cup {j}
    /\ loop_pc' = "in_job"
    /\ UNCHANGED <<due, pending, due_events, job_log>>
    /\ UNCHANGED <<VALUE_SCORING, RECOMMENDATION_THRESHOLDS, config_updated,
                   all_star_mtime, reader>>
    /\ UNCHANGED <<pickupVars, statVars, swapVars, bonusVars, snapshotVars, pc>>

\* Mutant of AfterJob: the job functions without their try/except.
AfterJobUncaught(ending) ==
    IF ending = "exception" THEN "dead" ELSE "run_pending"

\* Where the thread of the loop is when a job function has ended: each of
\* run_analysis, run_quick_check and cleanup_files has its whole body in
\* try/except Exception and logs the exception, and an error result is
\* logged and not raised; the thread is back in run_pending.
AfterJob(ending) == "run_pending"

\* The job function ends: with a result of status success, with an error
\* result, or with an exception raised inside it.  A job that has run is
\* rescheduled by run_pending; one that left by an exception is not.
finish_job ==
    /\ loop_pc = "in_job"
    /\ \E j \in running, ending \in {"success", "error_result", "exception"} :
          /\ running' = running \ {j}
          /\ pending' = pending \ {j}
          /\ loop_pc' = AfterJob(ending)
          /\ due' = IF AfterJob(ending) = "dead" THEN due ELSE due \ {j}
          /\ job_log' = [job_log EXCEPT ![j] = ending]
    /\ UNCHANGED due_events
    /\ UNCHANGED <<VALUE_SCORING, RECOMMENDATION_THRESHOLDS, config_updated,
                   all_star_mtime, reader>>
    /\ UNCHANGED <<pickupVars, statVars, swapVars, bonusVars, snapshotVars, pc>>

\* run_pending has run every job it collected and returns: time.sleep(60).
sleep ==
    /\ loop_pc = "run_pending"
    /\ pending = {}
    /\ loop_pc' = "sleep"
    /\ UNCHANGED <<due, pending, running, due_events, job_log>>
    /\ UNCHANGED <<VALUE_SCORING, RECOMMENDATION_THRESHOLDS, config_updated,
                   all_star_mtime, reader>>
    /\ UNCHANGED <<pickupVars, statVars, swapVars, bonusVars, snapshotVars, pc>>

\* ScheduledAnalyzer() built and run_scheduler entered: nothing due yet.
InitScheduler ==
    /\ due = {}
    /\ pending = {}
    /\ running = {}
    /\ loop_pc = "sleep"
    /\ due_events = 0
    /\ job_log = [j \in Jobs |-> "none"]
    /\ IdleConfig
    /\ IdleCleanup
    /\ IdleSnapshots
    /\ pc = "start"
    /\ IdlePickups
    /\ all_star_file = ShippedAllStarFile
    /\ IdleStats
    /\ IdleSwap
    /\ IdleBonus

NextScheduler ==
    \/ job_comes_due
    \/ run_pending
    \/ start_job
    \/ finish_job
    \/ sleep

\* The thread of the loop goes on whenever it can: sleep returns, and a job
\* function that has been called ends.
SpecScheduler ==
    /\ InitScheduler
    /\ [][NextScheduler]_vars
    /\ WF_vars(run_pending)
    /\ WF_vars(start_job)
    /\ WF_vars(finish_job)
    /\ WF_vars(sleep)

====
